---- MODULE Spec2Model ----
(***************************************************************************)
(* A model of the ninja-slicer game core: Dish, Slicer, ParticleSystem and *)
(* the Game orchestrator with its frame loop, together with the parts of   *)
(* the host it talks to (clock, animation-frame scheduler, timers, audio,  *)
(* storage, the App's HUD callbacks).                                      *)
(*                                                                         *)
(* Numbers.  The code computes with IEEE doubles; the model computes with  *)
(* integers in fixed units chosen so that every step the code takes on the *)
(* inputs drawn here is exact:                                             *)
(*   wall clock (performance.now)       centiseconds (cs), 1 cs = 10 ms    *)
(*   dt of a tick                       cs, clamped to MaxDt = 0.1 s       *)
(*   comboTimer, spawnTimer, interval   1/5000 s  (1 cs = TimerPerCs)      *)
(*   difficulty                         1/500     (1.0 = DifficultyScale)  *)
(*   positions of dishes and particles  1/100 px                           *)
(*   velocities                         px/s                               *)
(*   pointer samples, sizes, offsets    px                                 *)
(*   dish alpha                         1/200                              *)
(*   particle life                      1/400                              *)
(*   rotations                          1/100 rad                          *)
(*   an angle                           its unit vector <<cos, sin>>/1000  *)
(***************************************************************************)
EXTENDS Integers, Sequences, FiniteSets, TLC

----------------------------------------------------------------------------
(* Scales of the fixed-point units.                                        *)
CsPerSec == 100
TimerPerCs == 50
DifficultyScale == 500
PosScale == 100
AlphaScale == 200
LifeScale == 400
UnitScale == 1000

(* Program constants.                                                      *)
MaxDt == 10
Gravity == 600
ComboTimeout == 4000
MaxLives == 3
MinSpawnInterval == 2000
InitialSpawnInterval == 7500
SpawnIntervalStep == 500
BurstDifficulty == 1000
ExtraSpawnDelay == 20
SpawnJitter == 1500
SliceParticles == 15
TrailMaxAge == 15
MinSliceSpeed == 300
SpeedWindow == 5
RecentWindow == 3
DirectionSamples == 5
SplitSpeed == 150
SliceKick == 100
SliceOffsetRate == 200
ParticleGravity == 800
ParticleKick == 100
SpawnDepth == 50

(* The window the game runs in (window.innerWidth, window.innerHeight).    *)
ScreenWidth == 800
ScreenHeight == 600

----------------------------------------------------------------------------
(* Physics.ts                                                              *)

Max(a, b) == IF a >= b THEN a ELSE b

Min(a, b) == IF a <= b THEN a ELSE b

Abs(a) == IF a < 0 THEN -a ELSE a

RECURSIVE SqrtSearch(_, _, _)
SqrtSearch(n, lo, hi) ==
    IF lo >= hi THEN lo
    ELSE LET mid == (lo + hi + 1) \div 2
         IN  IF mid * mid <= n THEN SqrtSearch(n, mid, hi)
                               ELSE SqrtSearch(n, lo, mid - 1)

(* Math.sqrt, rounded down to the unit.                                    *)
Sqrt(n) == SqrtSearch(n, 0, Min(n, 46340))

(* length(v) of a vector <<x, y>>.                                         *)
Length(v) == Sqrt(v[1] * v[1] + v[2] * v[2])

Sub(a, b) == <<a[1] - b[1], a[2] - b[2]>>

Distance(a, b) == Length(Sub(a, b))

(* normalize(v), as a unit vector scaled by UnitScale.                     *)
Scaled(v, len) ==
    IF len = 0 THEN <<0, 0>>
    ELSE <<(v[1] * UnitScale) \div len, (v[2] * UnitScale) \div len>>

Normalize(v) == Scaled(v, Length(v))

----------------------------------------------------------------------------
(* Dish.ts                                                                 *)

DishTypes == {"pizza", "burger", "sushi", "donut", "taco", "hotdog"}

DISH_CONFIGS ==
    [t \in DishTypes |->
        CASE t = "pizza"  -> [color |-> "#ff6b35", points |-> 10]
          [] t = "burger" -> [color |-> "#8b4513", points |-> 15]
          [] t = "sushi"  -> [color |-> "#ff69b4", points |-> 20]
          [] t = "donut"  -> [color |-> "#ff85a2", points |-> 12]
          [] t = "taco"   -> [color |-> "#f4a460", points |-> 18]
          [] t = "hotdog" -> [color |-> "#daa520", points |-> 8]]

DishPoints(d) == DISH_CONFIGS[d.type].points

DishColor(d) == DISH_CONFIGS[d.type].color

(* new Dish(x, y, vx, vy, type) with the constructor's two random draws.   *)
NewDish(x, y, vx, vy, type, rotationSpeed, size) ==
    [x |-> x, y |-> y, vx |-> vx, vy |-> vy,
     rotation |-> 0, rotationSpeed |-> rotationSpeed,
     size |-> size, type |-> type,
     isSliced |-> FALSE, sliceAngle |-> <<UnitScale, 0>>,
     halfVelocity1 |-> <<0, 0>>, halfVelocity2 |-> <<0, 0>>,
     sliceOffset |-> 0, alpha |-> AlphaScale]

(* rate * dt for a rate per second and a dt in cs, in units of 1/scale.    *)
PerTick(rate, dt, scale) == (rate * dt * scale) \div CsPerSec

(* A slice that cuts a sliced dish again.                                  *)
DishSliceAgain(d, angle) ==
    LET perpX == (-angle[2] * SplitSpeed) \div UnitScale
        perpY == (angle[1] * SplitSpeed) \div UnitScale
    IN  [d EXCEPT !.isSliced = TRUE,
                  !.sliceAngle = angle,
                  !.halfVelocity1 = <<d.vx + perpX, d.vy + perpY - SliceKick>>,
                  !.halfVelocity2 = <<d.vx - perpX, d.vy - perpY - SliceKick>>]

(* Dish.slice(angle): cos(angle + pi/2) = -sin(angle) and                   *)
(* sin(angle + pi/2) = cos(angle).                                         *)
DishSlice(d, angle) ==
    IF d.isSliced THEN d
    ELSE LET perpX == (-angle[2] * SplitSpeed) \div UnitScale
             perpY == (angle[1] * SplitSpeed) \div UnitScale
         IN  [d EXCEPT !.isSliced = TRUE,
                       !.sliceAngle = angle,
                       !.halfVelocity1 = <<d.vx + perpX, d.vy + perpY - SliceKick>>,
                       !.halfVelocity2 = <<d.vx - perpX, d.vy - perpY - SliceKick>>]

(* Dish.update(dt, gravity), dt in cs.                                     *)
DishUpdate(d, dt, gravity) ==
    IF d.isSliced
    THEN LET h1y == d.halfVelocity1[2] + PerTick(gravity, dt, 1)
             h2y == d.halfVelocity2[2] + PerTick(gravity, dt, 1)
             avgX == (d.halfVelocity1[1] + d.halfVelocity2[1]) \div 2
             avgY == (h1y + h2y) \div 2
         IN  [d EXCEPT !.halfVelocity1 = <<d.halfVelocity1[1], h1y>>,
                       !.halfVelocity2 = <<d.halfVelocity2[1], h2y>>,
                       !.sliceOffset = @ + PerTick(SliceOffsetRate, dt, 1),
                       !.alpha = @ - PerTick(1, dt, AlphaScale) \div 2,
                       !.x = @ + PerTick(avgX, dt, PosScale),
                       !.y = @ + PerTick(avgY, dt, PosScale),
                       !.rotation = @ + PerTick(d.rotationSpeed, dt, CsPerSec)]
    ELSE LET vy == d.vy + PerTick(gravity, dt, 1)
         IN  [d EXCEPT !.vy = vy,
                       !.x = @ + PerTick(d.vx, dt, PosScale),
                       !.y = @ + PerTick(vy, dt, PosScale),
                       !.rotation = @ + PerTick(d.rotationSpeed, dt, CsPerSec)]

(* Dish.isOffScreen(screenHeight)                                          *)
IsOffScreen(d, screenHeight) == d.y > (screenHeight + d.size) * PosScale

(* A containsPoint that takes in the points at the radius.                 *)
ContainsPointOrOnEdge(d, x, y) ==
    IF d.isSliced THEN FALSE
    ELSE LET dx == x * PosScale - d.x
             dy == y * PosScale - d.y
             radius == (d.size * PosScale) \div 2
         IN  /\ Abs(dx) <= radius
             /\ Abs(dy) <= radius
             /\ dx * dx + dy * dy <= radius * radius

(* Dish.containsPoint(x, y), x and y in px.  The two bounds on |dx| and    *)
(* |dy| are implied by the comparison of the squares and keep the squares  *)
(* within the range of the model's integers.                               *)
ContainsPoint(d, x, y) ==
    IF d.isSliced THEN FALSE
    ELSE LET dx == x * PosScale - d.x
             dy == y * PosScale - d.y
             radius == (d.size * PosScale) \div 2
         IN  /\ Abs(dx) < radius
             /\ Abs(dy) < radius
             /\ dx * dx + dy * dy < radius * radius

(* createRandomDish(screenWidth, screenHeight) on the draws r: spawn x,    *)
(* target offset, speed, horizontal jitter and the constructor's draws.    *)
(* cos and sin of atan2(-0.7 h, targetX - x) are the sides of that         *)
(* triangle over its hypotenuse.                                           *)
Launch(screenHeight, r, across, up, hyp) ==
    NewDish(r.x * PosScale, (screenHeight + SpawnDepth) * PosScale,
            IF hyp = 0 THEN r.speed + r.jitter
                       ELSE (across * r.speed) \div hyp + r.jitter,
            IF hyp = 0 THEN 0 ELSE (up * r.speed) \div hyp,
            r.type, r.rotationSpeed, r.size)

Aim(screenHeight, r, across, up) ==
    Launch(screenHeight, r, across, up, Length(<<across, up>>))

CreateRandomDish(screenWidth, screenHeight, r) ==
    Aim(screenHeight, r,
        screenWidth \div 2 + r.target - r.x, -((screenHeight * 7) \div 10))

----------------------------------------------------------------------------
(* Slicer.ts: the trail is a sequence of [x, y, time].                     *)

(* trail.filter(p => now - p.time < window)                                *)
Younger(trail, now, window) ==
    SelectSeq(trail, LAMBDA p : now - p.time < window)

(* get currentSpeed, in px/s.                                              *)
SpeedOver(recent) ==
    IF Len(recent) < 2 THEN 0
    ELSE IF recent[Len(recent)].time - recent[1].time <= 0 THEN 0
    ELSE (Distance(<<recent[1].x, recent[1].y>>,
                   <<recent[Len(recent)].x, recent[Len(recent)].y>>) * CsPerSec)
         \div (recent[Len(recent)].time - recent[1].time)

(* A currentSpeed over the whole trail.                                    *)
CurrentSpeedOfTrail(trail, now) ==
    IF Len(trail) < 2 THEN 0
    ELSE SpeedOver(trail)

CurrentSpeed(trail, now) ==
    IF Len(trail) < 2 THEN 0
    ELSE SpeedOver(Younger(trail, now, SpeedWindow))

(* A canSlice that looks at the speed alone.                               *)
CanSliceBySpeed(trail, isActive, now) ==
    CurrentSpeed(trail, now) >= MinSliceSpeed

(* get canSlice                                                            *)
CanSlice(trail, isActive, now) ==
    isActive /\ CurrentSpeed(trail, now) >= MinSliceSpeed

(* get sliceDirection                                                      *)
Heading(dir) ==
    IF Length(dir) = 0 THEN <<0, UnitScale>> ELSE Normalize(dir)

DirectionOver(recent) ==
    IF Len(recent) < 2 THEN <<0, UnitScale>>
    ELSE Heading(Sub(<<recent[Len(recent)].x, recent[Len(recent)].y>>,
                     <<recent[1].x, recent[1].y>>))

SliceDirection(trail) ==
    IF Len(trail) < 2 THEN <<0, UnitScale>>
    ELSE DirectionOver(SubSeq(trail, Max(1, Len(trail) - DirectionSamples + 1),
                              Len(trail)))

(* get sliceAngle: atan2 of the direction, kept as its unit vector.        *)
SliceAngle(trail) == SliceDirection(trail)

(* An addPoint that puts the new sample in front.                          *)
AddPointInFront(trail, x, y, now) ==
    <<[x |-> x, y |-> y, time |-> now]>> \o trail

(* addPoint(x, y)                                                          *)
AddPoint(trail, x, y, now) == Append(trail, [x |-> x, y |-> y, time |-> now])

(* A prune that keeps the samples that are exactly 0.15 s old.             *)
SlicerUpdateKeepingOld(trail, now) ==
    SelectSeq(trail, LAMBDA p : now - p.time <= TrailMaxAge)

(* Slicer.update(): the prune.                                             *)
SlicerUpdate(trail, now) == Younger(trail, now, TrailMaxAge)

(* getRecentPoints()                                                       *)
Positions(points) == [i \in 1..Len(points) |-> <<points[i].x, points[i].y>>]

GetRecentPoints(trail, now) == Positions(Younger(trail, now, RecentWindow))

----------------------------------------------------------------------------
(* Particles.ts                                                            *)

(* The random draws of the i-th particle of a burst: a direction on the    *)
(* axes or on a 3-4-5 triangle, a speed in [100, 400), a size in [4, 12),  *)
(* a life span in [0.5, 1) s, a rotation and a rotation speed.             *)
ParticleDraw(i) ==
    LET dirs == << <<1000, 0>>, <<600, 800>>, <<0, 1000>>, <<-800, 600>>,
                   <<-1000, 0>>, <<-600, -800>>, <<0, -1000>>, <<800, -600>> >>
    IN  [dir |-> dirs[(i % 8) + 1],
         speed |-> 100 + 50 * (i % 6),
         size |-> 4 + (i % 8),
         maxLife |-> IF i % 2 = 0 THEN 50 ELSE 80,
         rotation |-> 100 * (i % 6),
         rotationSpeed |-> (i % 20) - 10]

(* ParticleSystem.emit(position, color, count)                             *)
NewParticle(position, color, r) ==
    [x |-> position[1], y |-> position[2],
     vx |-> (r.dir[1] * r.speed) \div UnitScale,
     vy |-> (r.dir[2] * r.speed) \div UnitScale - ParticleKick,
     size |-> r.size, color |-> color,
     life |-> LifeScale, maxLife |-> r.maxLife,
     rotation |-> r.rotation, rotationSpeed |-> r.rotationSpeed]

ParticlesEmit(particles, position, color, count) ==
    particles \o
    [i \in 1..count |-> NewParticle(position, color, ParticleDraw(i - 1))]

(* The body of the loop of ParticleSystem.update for one particle.         *)
ParticleStep(p, dt) ==
    LET vy == p.vy + PerTick(ParticleGravity, dt, 1)
    IN  [p EXCEPT !.vy = vy,
                  !.x = @ + PerTick(p.vx, dt, PosScale),
                  !.y = @ + PerTick(vy, dt, PosScale),
                  !.rotation = @ + PerTick(p.rotationSpeed, dt, CsPerSec),
                  !.life = @ - (LifeScale * dt) \div p.maxLife]

(* splice(i, 1) on a sequence.                                             *)
Splice(seq, i) == SubSeq(seq, 1, i - 1) \o SubSeq(seq, i + 1, Len(seq))

(* What the loop of ParticleSystem.update does with the particle at index  *)
(* i once it has stepped it.                                               *)
ParticleSweep(particles, i) ==
    IF particles[i].life <= 0 THEN Splice(particles, i) ELSE particles

(* The loop of ParticleSystem.update, from index i down to the first.  A   *)
(* splice takes out index i only, so i - 1 is an index of what is left;    *)
(* the second test never holds, and has the array evaluated at every turn. *)
RECURSIVE ParticleLoop(_, _, _)
ParticleLoop(particles, i, dt) ==
    IF i < 1 \/ Len(particles) < i THEN particles
    ELSE ParticleLoop(
             ParticleSweep([particles EXCEPT ![i] = ParticleStep(@, dt)], i),
             i - 1, dt)

(* An update that keeps the particles whose life is exactly used up.       *)
ParticlesUpdateKeepingSpent(particles, dt) ==
    SelectSeq([i \in 1..Len(particles) |-> ParticleStep(particles[i], dt)],
              LAMBDA p : p.life >= 0)

(* ParticleSystem.update(dt)                                               *)
ParticlesUpdate(particles, dt) == ParticleLoop(particles, Len(particles), dt)

----------------------------------------------------------------------------
(* The state.  Game, Slicer, ParticleSystem, Storage and AudioManager keep *)
(* their fields' names; hud is what the App's callbacks have put on the    *)
(* page; now, rafPending, frameDue and timeouts are the host's clock, its  *)
(* pending animation-frame callbacks, whether a repaint is due, and its    *)
(* pending setTimeout deadlines.  log holds the callbacks, audio cues and  *)
(* repaints of the canvas the last call into the game made, in order.      *)
(* epoch is the time at which the observed run begins.                     *)
VARIABLES state, score, combo, comboTimer, lives, spawnTimer, spawnInterval,
          difficulty, lastTime, animationFrameId, dishes,
          trail, isActive, lastPosition, particles,
          highScore, audioOk, isMusicPlaying, hud,
          now, rafPending, frameDue, timeouts, log, epoch

vars == <<state, score, combo, comboTimer, lives, spawnTimer, spawnInterval,
          difficulty, lastTime, animationFrameId, dishes,
          trail, isActive, lastPosition, particles,
          highScore, audioOk, isMusicPlaying, hud,
          now, rafPending, frameDue, timeouts, log, epoch>>

(* The state as one record, on which the methods below work.               *)
Cur ==
    [state |-> state, score |-> score, combo |-> combo,
     comboTimer |-> comboTimer, lives |-> lives, spawnTimer |-> spawnTimer,
     spawnInterval |-> spawnInterval, difficulty |-> difficulty,
     lastTime |-> lastTime, animationFrameId |-> animationFrameId,
     dishes |-> dishes, trail |-> trail, isActive |-> isActive,
     lastPosition |-> lastPosition, particles |-> particles,
     highScore |-> highScore, audioOk |-> audioOk,
     isMusicPlaying |-> isMusicPlaying, hud |-> hud,
     now |-> now, rafPending |-> rafPending, frameDue |-> frameDue,
     timeouts |-> timeouts, log |-> <<>>]

----------------------------------------------------------------------------
(* AudioManager.ts and the App's callbacks (main.ts)                       *)

Log(s, e) == [s EXCEPT !.log = Append(@, e)]

(* A play that holds the caller up while the sound of a ready audio        *)
(* context starts: the clock has moved on when it returns.                 *)
AudioPlayBlocking(s, type) ==
    IF s.audioOk
    THEN [Log(s, <<"play", type>>) EXCEPT !.now = @ + 1]
    ELSE Log(s, <<"play", type>>)

(* AudioManager.play(type): a cue, and no state of the game.               *)
AudioPlay(s, type) == Log(s, <<"play", type>>)

(* AudioManager.startMusic()                                               *)
StartMusic(s) ==
    IF ~s.audioOk \/ s.isMusicPlaying THEN s
    ELSE [s EXCEPT !.isMusicPlaying = TRUE]

(* AudioManager.stopMusic()                                                *)
StopMusic(s) == [s EXCEPT !.isMusicPlaying = FALSE]

(* App.updateScore                                                         *)
OnScoreChange(s, v) ==
    [Log(s, <<"onScoreChange", v>>) EXCEPT !.hud.score = v]

(* App.updateCombo: the text is written only for a positive combo.         *)
OnComboChange(s, v) ==
    [Log(s, <<"onComboChange", v>>)
        EXCEPT !.hud.combo = IF v > 0 THEN v ELSE @,
               !.hud.comboVisible = v > 0]

(* App.updateLives: the icons with index < lives are shown as kept.        *)
OnLivesChange(s, v) ==
    [Log(s, <<"onLivesChange", v>>)
        EXCEPT !.hud.lives = Cardinality({i \in 0..(MaxLives - 1) : i < v})]

(* App.handleStateChange                                                   *)
OnStateChange(s, v) == Log(s, <<"onStateChange", v>>)

(* App.handleGameOver                                                      *)
OnGameOver(s, v, isNewRecord) ==
    [Log(s, <<"onGameOver", v, isNewRecord>>)
        EXCEPT !.hud.finalScore = v, !.hud.newRecord = isNewRecord]

----------------------------------------------------------------------------
(* Game.ts                                                                 *)

(* A sliceDish that forgets the combo multiplier.                          *)
SliceScoreFlat(s, i) ==
    [s EXCEPT !.score = @ + DishPoints(s.dishes[i]),
              !.combo = @ + 1,
              !.comboTimer = ComboTimeout]

(* A slice that leaves the combo timer as it is.                           *)
SliceScoreUntimed(s, i) ==
    [s EXCEPT !.score = @ + DishPoints(s.dishes[i]) * Max(1, s.combo),
              !.combo = @ + 1]

(* sliceDish(dish) on the dish at index i, in its steps: the score and    *)
(* the combo, the effects, and the callbacks.  storage.addSlices only      *)
(* counts.                                                                 *)
SliceScore(s, i) ==
    [s EXCEPT !.score = @ + DishPoints(s.dishes[i]) * Max(1, s.combo),
              !.combo = @ + 1,
              !.comboTimer = ComboTimeout]

SliceEffects(s, i) ==
    [AudioPlay(s, "slice") EXCEPT !.particles =
        ParticlesEmit(@, <<s.dishes[i].x, s.dishes[i].y>>,
                      DishColor(s.dishes[i]), SliceParticles)]

SliceCallbacks(s) == OnComboChange(OnScoreChange(s, s.score), s.combo)

SliceDish(s, i) ==
    SliceCallbacks(SliceEffects(SliceScore(
        [s EXCEPT !.dishes[i] = DishSlice(@, SliceAngle(s.trail))], i), i))

(* Whether one of the points is inside the dish not yet sliced.            *)
Hit(dish, points) ==
    /\ ~dish.isSliced
    /\ \E k \in 1..Len(points) : ContainsPoint(dish, points[k][1], points[k][2])

(* The for-of loop of checkSliceCollisions from index i on; the result is  *)
(* the state and slicedThisFrame.                                          *)
RECURSIVE CollisionLoop(_, _, _, _)
CollisionLoop(s, i, points, slicedThisFrame) ==
    IF i > Len(s.dishes) THEN <<s, slicedThisFrame>>
    ELSE IF Hit(s.dishes[i], points)
         THEN CollisionLoop(SliceDish(s, i), i + 1, points, slicedThisFrame + 1)
         ELSE CollisionLoop(s, i + 1, points, slicedThisFrame)

(* A bonus given for a single slice as well.                               *)
ComboBonusFromOne(looped) ==
    IF looped[2] > 0
    THEN AudioPlay([looped[1] EXCEPT !.combo = @ + looped[2]], "combo")
    ELSE looped[1]

(* The end of checkSliceCollisions on the loop's result.                   *)
ComboBonus(looped) ==
    IF looped[2] > 1
    THEN AudioPlay([looped[1] EXCEPT !.combo = @ + looped[2]], "combo")
    ELSE looped[1]

SliceAlong(s, points) ==
    IF Len(points) = 0 THEN s
    ELSE ComboBonus(CollisionLoop(s, 1, points, 0))

(* checkSliceCollisions()                                                  *)
CheckSliceCollisions(s) ==
    IF ~CanSlice(s.trail, s.isActive, s.now) THEN s
    ELSE SliceAlong(s, GetRecentPoints(s.trail, s.now))

(* A reset that leaves the combo alone.                                    *)
ResetKeepingCombo(s) ==
    OnLivesChange(OnComboChange(OnScoreChange(
        [s EXCEPT !.dishes = <<>>,
                  !.particles = <<>>,
                  !.score = 0,
                  !.lives = MaxLives,
                  !.spawnTimer = 0,
                  !.spawnInterval = InitialSpawnInterval,
                  !.difficulty = DifficultyScale], 0), 0), MaxLives)

(* reset()                                                                 *)
Reset(s) ==
    OnLivesChange(OnComboChange(OnScoreChange(
        [s EXCEPT !.dishes = <<>>,
                  !.particles = <<>>,
                  !.score = 0,
                  !.combo = 0,
                  !.comboTimer = 0,
                  !.lives = MaxLives,
                  !.spawnTimer = 0,
                  !.spawnInterval = InitialSpawnInterval,
                  !.difficulty = DifficultyScale], 0), 0), MaxLives)

(* storage.setHighScore(score): the stored record after it; it returns     *)
(* whether score > highScore held before.                                  *)
SetHighScore(s, sc) ==
    IF sc > s.highScore THEN [s EXCEPT !.highScore = sc] ELSE s

(* gameOver()                                                              *)
GameOver(s) ==
    OnGameOver(
        SetHighScore(
            StopMusic(AudioPlay(
                OnStateChange([s EXCEPT !.state = "gameOver"], "gameOver"),
                "gameOver")),
            s.score),
        s.score, s.score > s.highScore)

(* The last statement of loseLife.                                         *)
EndWithoutLives(s) == IF s.lives <= 0 THEN GameOver(s) ELSE s

(* A miss that also costs ten points.                                      *)
LoseLifeAtACost(s) ==
    EndWithoutLives(OnComboChange(
        [AudioPlay(OnLivesChange([s EXCEPT !.lives = @ - 1], s.lives - 1), "miss")
            EXCEPT !.combo = 0, !.score = @ - 10], 0))

(* loseLife()                                                              *)
LoseLife(s) ==
    EndWithoutLives(OnComboChange(
        [AudioPlay(OnLivesChange([s EXCEPT !.lives = @ - 1], s.lives - 1), "miss")
            EXCEPT !.combo = 0], 0))

(* spawnDish() with the draws r of createRandomDish.                       *)
SpawnDish(s, r) ==
    [s EXCEPT !.dishes = Append(@, CreateRandomDish(ScreenWidth, ScreenHeight, r))]

(* A miss counted for every dish that leaves.                              *)
MissedEvenSliced(s, dish) == LoseLife(s)

(* The miss of a dish that leaves unsliced.                                *)
Missed(s, dish) == IF ~dish.isSliced THEN LoseLife(s) ELSE s

(* A sweep that keeps a sliced dish until its alpha is below 0.            *)
SweepBelowZero(s, i) ==
    IF IsOffScreen(s.dishes[i], ScreenHeight)
    THEN [Missed(s, s.dishes[i]) EXCEPT !.dishes = Splice(@, i)]
    ELSE IF s.dishes[i].isSliced /\ s.dishes[i].alpha < 0
         THEN [s EXCEPT !.dishes = Splice(@, i)]
         ELSE s

(* What the loop of update does with the dish at index i once it has       *)
(* moved.                                                                  *)
Sweep(s, i) ==
    IF IsOffScreen(s.dishes[i], ScreenHeight)
    THEN [Missed(s, s.dishes[i]) EXCEPT !.dishes = Splice(@, i)]
    ELSE IF s.dishes[i].isSliced /\ s.dishes[i].alpha <= 0
         THEN [s EXCEPT !.dishes = Splice(@, i)]
         ELSE s

(* The loop over the dishes in update, from index i down to the first.     *)
RECURSIVE DishLoop(_, _, _)
DishLoop(s, i, dt) ==
    IF i < 1 THEN s
    ELSE DishLoop(Sweep([s EXCEPT !.dishes[i] = DishUpdate(@, dt, Gravity)], i),
                  i - 1, dt)

(* The difficulty and the spawn interval update computes from the score.   *)
DifficultyOf(sc) == DifficultyScale + sc

(* A spawn interval without its floor.                                     *)
SpawnIntervalUnfloored(diff) ==
    InitialSpawnInterval - (diff * SpawnIntervalStep) \div DifficultyScale

SpawnIntervalOf(diff) ==
    Max(MinSpawnInterval,
        InitialSpawnInterval - (diff * SpawnIntervalStep) \div DifficultyScale)

(* update(dt), dt in cs, in its steps, on the random draws r: the spawn    *)
(* jitter, whether Math.random() < 0.3, and the draws of the dish spawned. *)
UpdateDifficulty(s) ==
    [s EXCEPT !.difficulty = DifficultyOf(s.score),
              !.spawnInterval = SpawnIntervalOf(DifficultyOf(s.score))]

(* A second spawn deferred at any difficulty.                              *)
SpawnAgainAtAnyDifficulty(s, r) ==
    IF r.extra
    THEN [s EXCEPT !.timeouts = Append(@, s.now + ExtraSpawnDelay)]
    ELSE s

SpawnAgainLater(s, r) ==
    IF s.difficulty > BurstDifficulty /\ r.extra
    THEN [s EXCEPT !.timeouts = Append(@, s.now + ExtraSpawnDelay)]
    ELSE s

SpawnWhenDue(s, r) ==
    IF s.spawnTimer <= 0
    THEN SpawnAgainLater(
             [SpawnDish(s, r.dish) EXCEPT !.spawnTimer = s.spawnInterval + r.jitter], r)
    ELSE s

UpdateSpawn(s, dt, r) ==
    SpawnWhenDue([s EXCEPT !.spawnTimer = @ - dt * TimerPerCs], r)

(* A combo that outlives a timer of exactly 0.                             *)
ExpireComboBelowZero(s) ==
    IF s.comboTimer < 0 THEN OnComboChange([s EXCEPT !.combo = 0], 0) ELSE s

ExpireCombo(s) ==
    IF s.comboTimer <= 0 THEN OnComboChange([s EXCEPT !.combo = 0], 0) ELSE s

UpdateCombo(s, dt) ==
    IF s.combo > 0
    THEN ExpireCombo([s EXCEPT !.comboTimer = @ - dt * TimerPerCs])
    ELSE s

(* A dish pass from the first index up, which goes on to index i + 1 also  *)
(* when it has removed the dish at index i.                                *)
RECURSIVE DishLoopForward(_, _, _)
DishLoopForward(s, i, dt) ==
    IF i > Len(s.dishes) THEN s
    ELSE DishLoopForward(
             Sweep([s EXCEPT !.dishes[i] = DishUpdate(@, dt, Gravity)], i),
             i + 1, dt)

UpdateDishesForward(s, dt) == DishLoopForward(s, 1, dt)

UpdateDishes(s, dt) == DishLoop(s, Len(s.dishes), dt)

UpdateSlicerAndParticles(s, dt) ==
    [s EXCEPT !.trail = SlicerUpdate(@, s.now),
              !.particles = ParticlesUpdate(@, dt)]

(* An update that ends with the collision pass.                            *)
UpdateThenSlice(s, dt, r) ==
    CheckSliceCollisions(
        UpdateSlicerAndParticles(
            UpdateDishes(
                UpdateCombo(
                    UpdateSpawn(UpdateDifficulty(s), dt, r), dt), dt), dt))

Update(s, dt, r) ==
    UpdateSlicerAndParticles(
        UpdateDishes(
            UpdateCombo(
                UpdateSpawn(UpdateDifficulty(s), dt, r), dt), dt), dt)

(* requestAnimationFrame: the handle is not 0 and names no other pending   *)
(* callback; handles are only ever passed back to cancelAnimationFrame and *)
(* compared with 0, so the least such number stands for it.                *)
NewHandle(s) ==
    CHOOSE h \in 1..(Cardinality(s.rafPending) + 1) :
        /\ h \notin s.rafPending
        /\ \A g \in 1..(h - 1) : g \in s.rafPending

(* this.animationFrameId = requestAnimationFrame(this.gameLoop)            *)
Request(s, h) == [s EXCEPT !.animationFrameId = h, !.rafPending = @ \cup {h}]

RequestAnimationFrame(s) == Request(s, NewHandle(s))

(* An update that the game gets in every phase.                            *)
UpdateInAnyPhase(s, dt, r) == Update(s, dt, r)

(* The update of gameLoop, which only a game in play gets.                 *)
UpdateInPlay(s, dt, r) == IF s.state = "playing" THEN Update(s, dt, r) ELSE s

(* render(): the canvas is painted anew; no state of the game changes.     *)
Render(s) == Log(s, <<"render">>)

(* A gameLoop that takes the whole time since the last frame as its dt.    *)
GameLoopUncapped(s, r) ==
    RequestAnimationFrame(
        Render(UpdateInPlay([s EXCEPT !.lastTime = s.now],
                            s.now - s.lastTime, r)))

(* gameLoop()                                                              *)
GameLoop(s, r) ==
    RequestAnimationFrame(
        Render(UpdateInPlay([s EXCEPT !.lastTime = s.now],
                            Min(s.now - s.lastTime, MaxDt), r)))

(* A start that calls gameLoop whether or not a frame is requested.        *)
LoopAnyway(s, r) == GameLoop([s EXCEPT !.lastTime = s.now], r)

(* The last statement of start.                                            *)
LoopUnlessLooping(s, r) ==
    IF s.animationFrameId = 0
    THEN GameLoop([s EXCEPT !.lastTime = s.now], r)
    ELSE s

(* start()                                                                 *)
Start(s, r) ==
    LoopUnlessLooping(
        StartMusic(OnStateChange([Reset(s) EXCEPT !.state = "playing"], "playing")),
        r)

(* A pause without its guard.                                              *)
PauseUnguarded(s) == OnStateChange([s EXCEPT !.state = "paused"], "paused")

(* pause()                                                                 *)
Pause(s) ==
    IF s.state = "playing"
    THEN OnStateChange([s EXCEPT !.state = "paused"], "paused")
    ELSE s

(* A resume without its guard.                                             *)
ResumeUnguarded(s) ==
    OnStateChange([s EXCEPT !.state = "playing", !.lastTime = s.now], "playing")

(* resume()                                                                *)
Resume(s) ==
    IF s.state = "paused"
    THEN OnStateChange([s EXCEPT !.state = "playing", !.lastTime = s.now], "playing")
    ELSE s

(* A destroy that only stops the music.                                    *)
DestroyMusicOnly(s) == StopMusic(s)

(* destroy()                                                               *)
Destroy(s) ==
    StopMusic(IF s.animationFrameId # 0
              THEN [s EXCEPT !.rafPending = @ \ {s.animationFrameId}]
              ELSE s)

(* A pointer-down whose startSlice keeps the samples of the trail.         *)
HandlePointerDownKeeping(s, x, y) ==
    IF s.state # "playing" THEN s
    ELSE [s EXCEPT !.isActive = TRUE,
                   !.trail = AddPoint(@, x, y, s.now),
                   !.lastPosition = <<x, y>>]

(* A pointer-down that starts a gesture in any phase.                      *)
HandlePointerDownInAnyPhase(s, x, y) ==
    [s EXCEPT !.isActive = TRUE,
              !.trail = AddPoint(<<>>, x, y, s.now),
              !.lastPosition = <<x, y>>]

(* handlePointerDown(x, y) with Slicer.startSlice                          *)
HandlePointerDown(s, x, y) ==
    IF s.state # "playing" THEN s
    ELSE [s EXCEPT !.isActive = TRUE,
                   !.trail = AddPoint(<<>>, x, y, s.now),
                   !.lastPosition = <<x, y>>]

(* A moveSlice that records the point of any gesture, active or not.       *)
MoveSliceUnguarded(s, x, y) ==
    [s EXCEPT !.trail = AddPoint(@, x, y, s.now),
              !.lastPosition = <<x, y>>]

(* Slicer.moveSlice(x, y)                                                  *)
MoveSlice(s, x, y) ==
    IF ~s.isActive THEN s
    ELSE [s EXCEPT !.trail = AddPoint(@, x, y, s.now),
                   !.lastPosition = <<x, y>>]

(* handlePointerMove(x, y)                                                 *)
HandlePointerMove(s, x, y) ==
    IF s.state # "playing" THEN s
    ELSE CheckSliceCollisions(MoveSlice(s, x, y))

(* A pointer-up that clears the trail as it ends the gesture.              *)
HandlePointerUpClearing(s) == [s EXCEPT !.isActive = FALSE, !.trail = <<>>]

(* handlePointerUp() with Slicer.endSlice                                  *)
HandlePointerUp(s) == [s EXCEPT !.isActive = FALSE]

----------------------------------------------------------------------------
(* The host: the page's clock, its repaints and its timers.                *)

(* The host runs the animation-frame callback h at a repaint.              *)
RunFrame(s, h, r) ==
    [GameLoop([s EXCEPT !.rafPending = @ \ {h}], r) EXCEPT !.frameDue = FALSE]

(* A deferred spawn that only a game in play gets.                         *)
RunTimeoutInPlay(s, d) ==
    IF s.state = "playing"
    THEN SpawnDish([s EXCEPT !.timeouts = Tail(@)], d)
    ELSE [s EXCEPT !.timeouts = Tail(@)]

(* The host runs the oldest setTimeout callback, () => this.spawnDish().   *)
RunTimeout(s, d) == SpawnDish([s EXCEPT !.timeouts = Tail(@)], d)

(* Time passes by d cs, and a repaint falls due.                           *)
Tick(s, d) == [s EXCEPT !.now = @ + d, !.frameDue = TRUE]

(* An event is a call of the page into the game or a step of the host,     *)
(* with its arguments and random draws: <<"start", r>>, <<"pause">>,       *)
(* <<"resume">>, <<"destroy">>, <<"down", p>>, <<"move", p>>, <<"up">>,    *)
(* <<"frame", r>>, <<"timeout", d>> and <<"clock", d>>.                    *)

(* Whether the event e can happen in s: a repaint needs to be due and to   *)
(* have a callback, a timer needs its delay to have passed, and a repaint  *)
(* that is due and has a callback comes before time passes further.        *)
CanFrame(s) == s.frameDue /\ s.rafPending # {}

CanTimeout(s) == Len(s.timeouts) > 0 /\ s.timeouts[1] <= s.now

CanTick(s) == ~CanFrame(s)

Can(s, e) ==
    CASE e[1] = "frame"   -> CanFrame(s)
      [] e[1] = "timeout" -> CanTimeout(s)
      [] e[1] = "clock"   -> CanTick(s)
      [] OTHER            -> TRUE

(* The state after the event e in s; the log starts anew.                  *)
Dispatch(c, e) ==
    CASE e[1] = "start"   -> Start(c, e[2])
      [] e[1] = "pause"   -> Pause(c)
      [] e[1] = "resume"  -> Resume(c)
      [] e[1] = "destroy" -> Destroy(c)
      [] e[1] = "down"    -> HandlePointerDown(c, e[2][1], e[2][2])
      [] e[1] = "move"    -> HandlePointerMove(c, e[2][1], e[2][2])
      [] e[1] = "up"      -> HandlePointerUp(c)
      [] e[1] = "frame"   -> RunFrame(c, CHOOSE h \in c.rafPending : TRUE, e[2])
      [] e[1] = "timeout" -> RunTimeout(c, e[2])
      [] e[1] = "clock"   -> Tick(c, e[2])

Do(s, e) == Dispatch([s EXCEPT !.log = <<>>], e)

(* The states a sequence of events leads to from the states S: none if an  *)
(* event of it cannot happen.                                              *)
RECURSIVE Run(_, _)
Run(S, es) ==
    IF Len(es) = 0 THEN S
    ELSE IF Len(es) = 1
         THEN {Do(s, es[1]) : s \in {t \in S : Can(t, es[1])}}
         ELSE LET half == Len(es) \div 2
              IN  UNION {Run({m}, SubSeq(es, half + 1, Len(es))) :
                             m \in Run(S, SubSeq(es, 1, half))}

----------------------------------------------------------------------------
(* Bounds and the inputs drawn.                                            *)

(* The clock runs for at most MaxElapsed cs after epoch.                   *)
MaxElapsed == 12

(* At most this many deferred spawns are pending at a time.                *)
MaxTimeouts == 1

(* The trail holds at most this many samples.                              *)
MaxTrail == 2

(* The time from one repaint to the next, and the time a hidden page       *)
(* stays without a repaint, cs.                                            *)
RepaintStep == 4

HiddenStep == 12

(* Where the pointer goes down and where it moves to, px.                  *)
PointerDowns == {<<370, 590>>}

PointerMoves == {<<400, 590>>}

(* What localStorage holds when the page loads.                            *)
StoredHighScores == {0, 30}

(* The draws of createRandomDish and of the Dish constructor: launches     *)
(* straight up from the middle, and one along a 3-4-5 triangle.            *)
Pizza ==
    [x |-> 400, target |-> 0, speed |-> 700, jitter |-> 0,
     type |-> "pizza", rotationSpeed |-> 2, size |-> 60]

Sushi ==
    [x |-> 150, target |-> 65, speed |-> 750, jitter |-> -50,
     type |-> "sushi", rotationSpeed |-> -3, size |-> 80]

DishDraws == {Pizza, Sushi}

(* The draws of one update: randomRange(-0.3, 0.3) in timer units,         *)
(* whether Math.random() < 0.3, and the draws of the dish.                 *)
UpdateDraws ==
    {[jitter |-> -SpawnJitter, extra |-> FALSE, dish |-> Pizza],
     [jitter |-> 1000, extra |-> TRUE, dish |-> Sushi]}

----------------------------------------------------------------------------
(* The state after new Game(canvas) and setCallbacks, on a page just       *)
(* loaded.                                                                 *)
Constructed(stored, audio, t) ==
    [state |-> "menu", score |-> 0, combo |-> 0, comboTimer |-> 0,
     lives |-> MaxLives, spawnTimer |-> 0,
     spawnInterval |-> InitialSpawnInterval, difficulty |-> DifficultyScale,
     lastTime |-> 0, animationFrameId |-> 0, dishes |-> <<>>,
     trail |-> <<>>, isActive |-> FALSE, lastPosition |-> <<>>,
     particles |-> <<>>, highScore |-> stored, audioOk |-> audio,
     isMusicPlaying |-> FALSE,
     hud |-> [score |-> 0, combo |-> 0, comboVisible |-> FALSE,
              lives |-> MaxLives, finalScore |-> 0, newRecord |-> FALSE],
     now |-> t, rafPending |-> {}, frameDue |-> FALSE, timeouts |-> <<>>,
     log |-> <<>>]

----------------------------------------------------------------------------
(* Recorded play.  A script is a sequence of events; the states it leads   *)
(* to from a page just loaded are states of the program, and the runs      *)
(* explored begin in them as well as on the page just loaded.              *)

(* The draws of an update that defers no second spawn.                     *)
Quiet(jitter, dish) == [jitter |-> jitter, extra |-> FALSE, dish |-> dish]

(* A dish launched straight up from the middle of the screen, and one      *)
(* launched from the left along a 3-4-5 triangle.                          *)
Straight(speed, size, type) ==
    [x |-> 400, target |-> 0, speed |-> speed, jitter |-> 0,
     type |-> type, rotationSpeed |-> 2, size |-> size]

Slanted(speed, size, type) ==
    [x |-> 150, target |-> 65, speed |-> speed, jitter |-> -50,
     type |-> type, rotationSpeed |-> -3, size |-> size]

(* The script es, n times over.                                            *)
Repeat(n, es) == [i \in 1..(n * Len(es)) |-> es[((i - 1) % Len(es)) + 1]]

(* n repaints 0.04 s apart, and n repaints 0.12 s apart, each with the     *)
(* draws r.                                                                *)
Fine(n, r) == Repeat(n, << <<"clock", 4>>, <<"frame", r>> >>)

Coarse(n, r) == Repeat(n, << <<"clock", 12>>, <<"frame", r>> >>)

(* The dishes the recorded game launches.                                  *)
FirstBurger == Quiet(-SpawnJitter, Straight(999, 89, "burger"))

Tacos == Quiet(-SpawnJitter, Straight(800, 80, "taco"))

SmallPizza == Quiet(-SpawnJitter, Straight(734, 60, "pizza"))

SlowPizza == Quiet(-SpawnJitter, Pizza)

LateBurger == Quiet(-SpawnJitter, Straight(990, 89, "burger"))

SideSushi == Quiet(-SpawnJitter, Slanted(860, 80, "sushi"))

Donut == Quiet(-SpawnJitter, Straight(700, 60, "donut"))

(* A game starts on a page just loaded; a burger and two tacos rise.       *)
Opening == << <<"start", FirstBurger>> >> \o Coarse(25, Tacos)

(* One swipe slices the three of them in three moves; a pizza is launched  *)
(* and comes to the pointer with the combo at 3 and 0.12 s of it left,     *)
(* while the halves of the burger are about to leave the screen.           *)
ComboOfThree ==
    Opening
    \o << <<"down", <<400, 70>> >> >> \o Fine(1, Tacos)
    \o << <<"move", <<400, 100>> >> >> \o Fine(1, Tacos)
    \o << <<"move", <<400, 348>> >> >> \o Fine(1, Tacos)
    \o << <<"move", <<400, 190>> >>, <<"up">> >>
    \o Coarse(6, SmallPizza) \o Fine(2, SmallPizza)

(* The pizza is left alone; as it falls back a burger rises through it,    *)
(* so that both are under the pointer, and the pizza is 0.12 s from the    *)
(* lower edge.                                                             *)
TwoUnderPointer ==
    ComboOfThree \o Coarse(21, SlowPizza) \o Fine(3, LateBurger)

(* Two pizzas are missed, a donut is sliced, and the burger and a sushi    *)
(* fall towards the lower edge with one life left: the burger leaves       *)
(* within 0.08 s, the sushi within 0.1 s.                                  *)
LastLife ==
    TwoUnderPointer
    \o Coarse(11, SideSushi) \o Coarse(13, Donut) \o Fine(1, Donut)
    \o << <<"down", <<400, 590>> >> >> \o Fine(1, Donut)
    \o << <<"move", <<400, 437>> >>, <<"up">> >>
    \o Fine(2, Donut) \o Coarse(6, Donut)

(* A game of single slices: every sushi is sliced as it rises, and the     *)
(* jitter drawn keeps the launches 1.14 s apart.  The k-th launch follows  *)
(* k slices.                                                               *)
RallySushi(k, extra) ==
    [jitter |-> 20 * k - 1300, extra |-> extra, dish |-> Straight(700, 60, "sushi")]

RallyRound(k, extra) ==
    << <<"down", <<370, 561>> >> >> \o Fine(1, RallySushi(k, FALSE))
    \o << <<"move", <<400, 561>> >>, <<"up">> >>
    \o Coarse(11, RallySushi(k, extra))

(* RallyRounds rounds, the last of which defers a second spawn.            *)
RallyRounds == 26

RallyLength == Len(RallyRound(1, FALSE))

Rally ==
    [i \in 1..(RallyRounds * RallyLength) |->
        LET k == (i - 1) \div RallyLength + 1
        IN  RallyRound(k, k = RallyRounds)[((i - 1) % RallyLength) + 1]]

(* The score has passed 500, and a deferred spawn is 0.12 s away.          *)
Seasoned ==
    << <<"start", Quiet(-800, Straight(700, 60, "sushi"))>> >>
    \o Coarse(1, RallySushi(0, FALSE)) \o Rally
    \o Fine(2, RallySushi(RallyRounds, FALSE))

(* The same game one repaint before its last launch: the score has passed *)
(* 500, the spawn timer has 0.1 s left and no spawn is deferred.           *)
AboutToLaunch ==
    << <<"start", Quiet(-800, Straight(700, 60, "sushi"))>> >>
    \o Coarse(1, RallySushi(0, FALSE)) \o SubSeq(Rally, 1, Len(Rally) - 2)

(* The same game in its second round: both sushi are sliced, and the first *)
(* has 0.06 of its alpha and 0.12 s of simulated time left.                *)
Fading ==
    << <<"start", Quiet(-800, Straight(700, 60, "sushi"))>> >>
    \o Coarse(1, RallySushi(0, FALSE)) \o SubSeq(Rally, 1, RallyLength + 19)
    \o Fine(1, RallySushi(2, FALSE))

(* After the combo of three a slow gesture is under way: the pointer went  *)
(* down 0.11 s ago and moved 0.03 s ago.                                   *)
Trailing ==
    ComboOfThree
    \o << <<"down", <<370, 590>> >>, <<"clock", 8>>, <<"frame", SmallPizza>>,
          <<"move", <<400, 590>> >>, <<"clock", 3>>, <<"frame", SmallPizza>> >>

Recorded ==
    {ComboOfThree, TwoUnderPointer, LastLife, Seasoned, AboutToLaunch, Fading,
     Trailing}

(* The states the observed runs begin in.                                  *)
Snapshots ==
    {Constructed(stored, audio, 0) :
        stored \in StoredHighScores, audio \in BOOLEAN}
    \cup UNION {Run({Constructed(0, TRUE, 0)}, es) : es \in Recorded}

(* The variables take the values of the record s.                          *)
Holds(s) ==
    /\ state = s.state /\ score = s.score /\ combo = s.combo
    /\ comboTimer = s.comboTimer /\ lives = s.lives
    /\ spawnTimer = s.spawnTimer /\ spawnInterval = s.spawnInterval
    /\ difficulty = s.difficulty /\ lastTime = s.lastTime
    /\ animationFrameId = s.animationFrameId /\ dishes = s.dishes
    /\ trail = s.trail /\ isActive = s.isActive
    /\ lastPosition = s.lastPosition /\ particles = s.particles
    /\ highScore = s.highScore /\ audioOk = s.audioOk
    /\ isMusicPlaying = s.isMusicPlaying /\ hud = s.hud
    /\ now = s.now /\ rafPending = s.rafPending /\ frameDue = s.frameDue
    /\ timeouts = s.timeouts /\ log = s.log

Init ==
    \E s \in Snapshots :
        /\ Holds(s)
        /\ epoch = s.now

(* An event takes the state to the record s.                               *)
Commit(s) ==
    /\ state' = s.state /\ score' = s.score /\ combo' = s.combo
    /\ comboTimer' = s.comboTimer /\ lives' = s.lives
    /\ spawnTimer' = s.spawnTimer /\ spawnInterval' = s.spawnInterval
    /\ difficulty' = s.difficulty /\ lastTime' = s.lastTime
    /\ animationFrameId' = s.animationFrameId /\ dishes' = s.dishes
    /\ trail' = s.trail /\ isActive' = s.isActive
    /\ lastPosition' = s.lastPosition /\ particles' = s.particles
    /\ highScore' = s.highScore /\ isMusicPlaying' = s.isMusicPlaying
    /\ hud' = s.hud /\ now' = s.now /\ rafPending' = s.rafPending
    /\ frameDue' = s.frameDue /\ timeouts' = s.timeouts /\ log' = s.log
    /\ UNCHANGED <<audioOk, epoch>>

(* A draw that schedules a deferred spawn is taken only below the bound.   *)
Drawable(r) == r.extra => Len(timeouts) < MaxTimeouts

----------------------------------------------------------------------------
(* The calls of the UI into the game.                                      *)

CallStart ==
    \E r \in UpdateDraws :
        /\ Drawable(r)
        /\ Commit(Start(Cur, r))

CallPause ==
    /\ Commit(Pause(Cur))

CallResume ==
    /\ Commit(Resume(Cur))

CallDestroy ==
    /\ Commit(Destroy(Cur))

(* The canvas' pointer events.                                             *)
PointerDown ==
    \E p \in PointerDowns :
        /\ p \in PointerDowns
        /\ Commit(HandlePointerDown(Cur, p[1], p[2]))

PointerMove ==
    \E p \in PointerMoves :
        /\ (state = "playing" /\ isActive) => Len(trail) < MaxTrail
        /\ Commit(HandlePointerMove(Cur, p[1], p[2]))

PointerUp ==
    /\ Commit(HandlePointerUp(Cur))

(* The host repaints: it runs a pending animation-frame callback.          *)
Frame ==
    \E h \in rafPending, r \in UpdateDraws :
        /\ Drawable(r)
        /\ CanFrame(Cur)
        /\ Commit(RunFrame(Cur, h, r))

(* The host runs the deferred spawn whose delay has passed.                *)
SpawnTimeout ==
    \E d \in DishDraws :
        /\ CanTimeout(Cur)
        /\ Commit(RunTimeout(Cur, d))

(* Time passes up to the next repaint, or for longer while the page is     *)
(* hidden and nothing is painted.                                          *)
AdvanceClock ==
    \E d \in {RepaintStep, HiddenStep} :
        /\ now + d - epoch <= MaxElapsed
        /\ CanTick(Cur)
        /\ Commit(Tick(Cur, d))

Next ==
    \/ CallStart
    \/ CallPause
    \/ CallResume
    \/ CallDestroy
    \/ PointerDown
    \/ PointerMove
    \/ PointerUp
    \/ Frame
    \/ SpawnTimeout
    \/ AdvanceClock

Spec == Init /\ [][Next]_vars

----------------------------------------------------------------------------
(* The spawn interval as a function of the score: the same game, entered   *)
(* at the state Seasoned leads to with the score one of Scores.            *)
Scores == {4980, 5000, 5020, 12000}

InitDifficulty ==
    \E s \in Run({Constructed(0, TRUE, 0)}, Seasoned), sc \in Scores :
        /\ Holds([s EXCEPT !.score = sc, !.hud.score = sc])
        /\ epoch = s.now

SpecDifficulty == InitDifficulty /\ [][Next]_vars

----------------------------------------------------------------------------
(* What the properties speak of.                                           *)

(* A tick of a game in play: the frame callback runs update.               *)
PlayingTick == Frame /\ state = "playing"

(* The dt of the tick that runs now, cs.                                   *)
TickDt == Min(now - lastTime, MaxDt)

(* How often the entry e is in the log l, and where the callback or cue    *)
(* named name is in it.                                                    *)
Count(l, e) == Cardinality({i \in DOMAIN l : l[i] = e})

Fired(l, name) == {i \in DOMAIN l : l[i][1] = name}

(* Every variable but the log keeps its value.                             *)
Untouched ==
    UNCHANGED <<state, score, combo, comboTimer, lives, spawnTimer,
                spawnInterval, difficulty, lastTime, animationFrameId, dishes,
                trail, isActive, lastPosition, particles, highScore, audioOk,
                isMusicPlaying, hud, now, rafPending, frameDue, timeouts, epoch>>

(* The dishes after the physics of this tick; those of them that are off   *)
(* the screen, those of these that were never sliced, and the dishes the   *)
(* loop of update keeps.                                                   *)
Moved == [i \in 1..Len(dishes) |-> DishUpdate(dishes[i], TickDt, Gravity)]

Leaving == {i \in 1..Len(dishes) : IsOffScreen(Moved[i], ScreenHeight)}

Misses == {i \in Leaving : ~dishes[i].isSliced}

Staying ==
    SelectSeq(Moved, LAMBDA d : /\ ~IsOffScreen(d, ScreenHeight)
                                /\ ~(d.isSliced /\ d.alpha <= 0))

(* The dishes this step slices, of a step that removes no dish.            *)
NewlySliced ==
    {i \in 1..Len(dishes) :
        /\ i <= Len(dishes')
        /\ ~dishes[i].isSliced
        /\ dishes'[i].isSliced}

(* The points of slicing the dishes ds[i], i in I, in the order of their   *)
(* indexes, the first with the combo c.                                    *)
RECURSIVE Award(_, _, _)
Award(ds, I, c) ==
    IF I = {} THEN 0
    ELSE LET i == CHOOSE j \in I : \A k \in I : j <= k
         IN  DISH_CONFIGS[ds[i].type].points * (IF c > 1 THEN c ELSE 1)
             + Award(ds, I \ {i}, c + 1)

(* The callbacks of reset and start.                                       *)
StartLog ==
    << <<"onScoreChange", 0>>, <<"onComboChange", 0>>,
       <<"onLivesChange", MaxLives>>, <<"onStateChange", "playing">> >>

----------------------------------------------------------------------------
(* C1, as the code has it: start() in any phase leaves score = 0,          *)
(* combo = 0, comboTimer = 0, lives = 3, difficulty = 1, no particles and  *)
(* the phase Playing.  When a frame has been requested before, it leaves   *)
(* spawnTimer = 0, spawnInterval = 1.5 and no dishes as well; otherwise    *)
(* (the first start()) it runs the first tick at once, after which the     *)
(* spawn interval is 1.4, one dish is in the air and the spawn timer is    *)
(* 1.4 +- 0.3.                                                             *)
C1_StartResets ==
    [][CallStart =>
        /\ score' = 0 /\ combo' = 0 /\ comboTimer' = 0 /\ lives' = MaxLives
        /\ difficulty' = DifficultyScale
        /\ particles' = <<>>
        /\ state' = "playing"
        /\ animationFrameId # 0 =>
              /\ spawnTimer' = 0
              /\ spawnInterval' = InitialSpawnInterval
              /\ dishes' = <<>>
        /\ animationFrameId = 0 =>
              /\ spawnInterval' = InitialSpawnInterval - SpawnIntervalStep
              /\ Len(dishes') = 1
              /\ spawnTimer' - spawnInterval' \in (-SpawnJitter)..SpawnJitter]_vars

(* C1's case: a game is started again after a game over, and start() has   *)
(* left no dish and a spawn timer of 0.                                    *)
C1_Restarted ==
    /\ state = "playing" /\ log = StartLog
    /\ hud.finalScore > 0
    /\ score = 0 /\ lives = MaxLives /\ dishes = <<>> /\ spawnTimer = 0
    /\ spawnInterval = InitialSpawnInterval

(* C1 as stated: start() in any phase leaves score = 0, combo = 0,         *)
(* comboTimer = 0, lives = 3, spawnTimer = 0, spawnInterval = 1.5,         *)
(* difficulty = 1, no dishes, no particles and the phase Playing.          *)
C1_FullReset ==
    [][CallStart =>
        /\ score' = 0 /\ combo' = 0 /\ comboTimer' = 0 /\ lives' = MaxLives
        /\ spawnTimer' = 0
        /\ spawnInterval' = InitialSpawnInterval
        /\ difficulty' = DifficultyScale
        /\ dishes' = <<>>
        /\ particles' = <<>>
        /\ state' = "playing"]_vars

(* C2: pause() changes the phase only when it is Playing, to Paused, and   *)
(* resume() only when it is Paused, to Playing; in any other phase each    *)
(* changes nothing of the game and fires no callback.                      *)
C2_PauseResumeGuards ==
    [][/\ CallPause =>
            IF state = "playing"
            THEN state' = "paused" /\ log' = << <<"onStateChange", "paused">> >>
            ELSE Untouched /\ log' = <<>>
       /\ CallResume =>
            IF state = "paused"
            THEN state' = "playing" /\ log' = << <<"onStateChange", "playing">> >>
            ELSE Untouched /\ log' = <<>>]_vars

(* C2's case: resume() has taken a paused game back to Playing.            *)
C2_Resumed ==
    /\ state = "playing"
    /\ log = << <<"onStateChange", "playing">> >>

(* C3: until the first start() the phase is Menu, and every change of the  *)
(* phase is one of: to Playing by start(), Playing to Paused by pause(),   *)
(* Paused to Playing by resume(), Playing to GameOver in a tick; GameOver  *)
(* is entered only in a tick in which a miss has taken the lives from a    *)
(* positive number to 0.                                                   *)
C3_PhaseChanges ==
    /\ [](animationFrameId = 0 => state = "menu")
    /\ [][state' # state =>
            \/ state' = "playing" /\ CallStart
            \/ state = "playing" /\ state' = "paused" /\ CallPause
            \/ state = "paused" /\ state' = "playing" /\ CallResume
            \/ /\ state = "playing" /\ state' = "gameOver" /\ Frame
               /\ lives > 0 /\ lives' <= 0
               /\ Misses # {}
               /\ \E i \in Fired(log', "onStateChange") :
                     /\ i > 3
                     /\ log'[i] = <<"onStateChange", "gameOver">>
                     /\ log'[i - 3] = <<"onLivesChange", 0>>]_vars

(* C3's case: a tick has ended the game with the last life.                *)
C3_GameOverEntered ==
    /\ state = "gameOver" /\ lives = 0
    /\ Fired(log, "onGameOver") # {}

(* C4: in a session onGameOver fires once when the lives reach 0, never    *)
(* twice, also when several unsliced dishes leave the screen in one tick,  *)
(* and it is called with the session's score in the phase GameOver.        *)
C4_GameOverOnce ==
    /\ Cardinality(Fired(log, "onGameOver")) <= 1
    /\ \A i \in Fired(log, "onGameOver") :
          log[i][2] = score /\ state = "gameOver"

(* C5: in a tick of a game in play the dishes that are off the screen      *)
(* after their physics are removed; each of them never sliced is a miss    *)
(* that takes one life, sets the combo to 0 and fires onLivesChange and    *)
(* onComboChange(0); the sliced ones leave lives and combo as they are.    *)
C5_OffScreen ==
    [][PlayingTick =>
        /\ Len(dishes') \in {Len(Staying), Len(Staying) + 1}
        /\ SubSeq(dishes', 1, Len(Staying)) = Staying
        /\ \A j \in 1..Len(dishes') : ~IsOffScreen(dishes'[j], ScreenHeight)
        /\ lives' = lives - Cardinality(Misses)
        /\ Cardinality(Fired(log', "onLivesChange")) = Cardinality(Misses)
        /\ Misses # {} =>
              /\ combo' = 0
              /\ Count(log', <<"onLivesChange", lives - 1>>) = 1
              /\ Count(log', <<"onComboChange", 0>>) >= Cardinality(Misses)
        /\ Misses = {} =>
              \/ combo' = combo
              \/ combo > 0 /\ comboTimer' <= 0 /\ combo' = 0]_vars

(* C5's case: an unsliced dish has left the screen and taken a life.       *)
C5_Missed ==
    /\ state = "playing" /\ lives = MaxLives - 1 /\ combo = 0
    /\ log = << <<"onLivesChange", MaxLives - 1>>, <<"play", "miss">>,
                <<"onComboChange", 0>>, <<"render">> >>

(* C6: each slice adds dish.points * max(1, c) to the score, c being the   *)
(* combo just before it, then makes the combo c + 1 and the combo timer    *)
(* 0.8 s.                                                                  *)
C6_SliceScore ==
    [][PointerMove =>
        /\ score' = score + Award(dishes, NewlySliced, combo)
        /\ combo' >= combo + Cardinality(NewlySliced)
        /\ Cardinality(NewlySliced) = 1 => combo' = combo + 1
        /\ NewlySliced # {} => comboTimer' = ComboTimeout
        /\ NewlySliced = {} => comboTimer' = comboTimer /\ combo' = combo]_vars

(* C6's case: with the combo at 3 and the score at 69 a pizza, worth 10,   *)
(* is sliced: the score is 99 and the combo 4.                             *)
C6_ThirtyForAPizza ==
    /\ score = 99 /\ combo = 4 /\ comboTimer = ComboTimeout
    /\ log = << <<"play", "slice">>, <<"onScoreChange", 99>>,
                <<"onComboChange", 4>> >>

(* C7, as the code has it: the collision pass is no step of the tick.  A   *)
(* tick of a game in play slices no dish and leaves the score as it is,    *)
(* also when canSlice holds and a dish not sliced contains a recent point  *)
(* of the slicer; a dish is sliced only by the pass of a pointer-move      *)
(* event.                                                                  *)
C7_OnlyMovesSlice ==
    [][/\ PlayingTick =>
            /\ score' = score
            /\ Count(log', <<"play", "slice">>) = 0
            /\ Len(dishes') >= Len(Staying)
            /\ \A j \in 1..Len(Staying) :
                  j <= Len(dishes') => dishes'[j].isSliced = Staying[j].isSliced
       /\ Count(log', <<"play", "slice">>) > 0 => PointerMove]_vars

(* C7's case: a tick has run, canSlice holds, and a dish not sliced        *)
(* contains a recent point of the slicer.                                  *)
C7_UnderThePointer ==
    /\ state = "playing" /\ lastTime = now /\ ~frameDue
    /\ CanSlice(trail, isActive, now)
    /\ \E i \in 1..Len(dishes) : Hit(dishes[i], GetRecentPoints(trail, now))

(* C7 as stated: in every tick of a game in play in which canSlice is      *)
(* true, each dish not sliced that contains a recent point of the slicer   *)
(* is sliced in that tick: after the tick there is none.                   *)
C7_TickSlices ==
    [][PlayingTick =>
        ~(/\ CanSlice(trail', isActive', now')
          /\ \E i \in 1..Len(dishes') :
                Hit(dishes'[i], GetRecentPoints(trail', now')))]_vars

(* C8: a collision pass that slices k dishes adds k to the combo on top    *)
(* of the k increments and plays the combo cue if k > 1, and adds nothing  *)
(* and plays no combo cue if k <= 1; a dish is sliced at most once in a    *)
(* pass.                                                                   *)
C8_ComboBonus ==
    [][PointerMove =>
        /\ combo' = combo + Cardinality(NewlySliced)
                    + (IF Cardinality(NewlySliced) > 1
                       THEN Cardinality(NewlySliced) ELSE 0)
        /\ Count(log', <<"play", "combo">>)
              = (IF Cardinality(NewlySliced) > 1 THEN 1 ELSE 0)
        /\ Count(log', <<"play", "slice">>) = Cardinality(NewlySliced)
        /\ Len(dishes') = Len(dishes)
        /\ \A i \in 1..Len(dishes) : dishes[i].isSliced => dishes'[i] = dishes[i]]_vars

(* C8's case: one pass has sliced a pizza and a burger with the combo at   *)
(* 0; the combo is 2 + 2 and the combo cue is the last thing played.       *)
C8_TwoInOnePass ==
    /\ combo = 4 /\ score = 94
    /\ Count(log, <<"play", "slice">>) = 2
    /\ log[Len(log)] = <<"play", "combo">>

(* C9: in a tick of a game in play a positive combo has its timer          *)
(* decreased by dt and, if the timer is then <= 0, is reset to 0 with      *)
(* onComboChange(0); with the combo at 0 the timer is left alone and this  *)
(* step fires nothing.  A positive combo always has between 0 and 0.8 s    *)
(* left, so that without a slice it is reset within 0.8 s of ticks.        *)
C9_ComboTimer ==
    /\ [](combo > 0 => comboTimer > 0 /\ comboTimer <= ComboTimeout)
    /\ [][PlayingTick =>
            IF combo > 0
            THEN /\ comboTimer' = comboTimer - TickDt * TimerPerCs
                 /\ IF comboTimer' <= 0
                    THEN combo' = 0 /\ log'[1] = <<"onComboChange", 0>>
                    ELSE /\ Misses = {} => combo' = combo
                         /\ Misses = {} => Fired(log', "onComboChange") = {}
            ELSE /\ comboTimer' = comboTimer
                 /\ combo' = 0
                 /\ Misses = {} => Fired(log', "onComboChange") = {}]_vars

(* C9's case: a tick has found the timer of a positive combo used up and   *)
(* has reset the combo.                                                    *)
C9_Expired ==
    /\ state = "playing" /\ combo = 0 /\ comboTimer <= 0
    /\ hud.combo > 0
    /\ log = << <<"onComboChange", 0>>, <<"render">> >>

(* C10: a tick of a game in play sets difficulty = 1 + score / 500 and     *)
(* spawnInterval = max(0.4, 1.5 - 0.1 * difficulty); the spawn interval is *)
(* never below 0.4, does not grow with the score, and is exactly 0.4 for   *)
(* every score >= 5000.                                                    *)
C10_SpawnInterval ==
    [][PlayingTick =>
        /\ difficulty' = DifficultyScale + score
        /\ spawnInterval' =
              (IF InitialSpawnInterval - difficulty' >= MinSpawnInterval
               THEN InitialSpawnInterval - difficulty' ELSE MinSpawnInterval)
        /\ spawnInterval' >= MinSpawnInterval
        /\ score >= 5000 => spawnInterval' = MinSpawnInterval
        /\ \A sc \in Scores \cup {0, 500, 4000} :
              /\ sc >= score => SpawnIntervalOf(DifficultyOf(sc)) <= spawnInterval'
              /\ sc <= score => SpawnIntervalOf(DifficultyOf(sc)) >= spawnInterval']_vars

(* C10's case: a tick has run with a score of 5000 or more.                *)
C10_AtTheFloor ==
    /\ state = "playing" /\ lastTime = now /\ ~frameDue
    /\ score >= 5000
    /\ difficulty = DifficultyScale + score
    /\ spawnInterval = MinSpawnInterval

(* C11: a tick of a game in play decreases the spawn timer by dt; if it is *)
(* then <= 0 the tick adds exactly one dish and sets the timer to          *)
(* spawnInterval + j, j in [-0.3, 0.3], and otherwise it adds no dish.  A  *)
(* second spawn is deferred only by a tick that has spawned a dish, only   *)
(* with difficulty > 2 (score > 500), and for 0.2 s later.                 *)
C11_SpawnTimer ==
    [][/\ PlayingTick =>
            IF spawnTimer - TickDt * TimerPerCs <= 0
            THEN /\ Len(dishes') = Len(Staying) + 1
                 /\ SubSeq(dishes', 1, Len(Staying)) = Staying
                 /\ spawnTimer' - spawnInterval' \in (-SpawnJitter)..SpawnJitter
                 /\ spawnTimer' > 0
            ELSE /\ Len(dishes') = Len(Staying)
                 /\ spawnTimer' = spawnTimer - TickDt * TimerPerCs
                 /\ timeouts' = timeouts
       /\ Len(timeouts') > Len(timeouts) =>
            /\ state = "playing" /\ (Frame \/ CallStart)
            /\ timeouts' = Append(timeouts, now + ExtraSpawnDelay)
            /\ difficulty' > 2 * DifficultyScale
            /\ score > DifficultyScale
            /\ spawnTimer' - spawnInterval' \in (-SpawnJitter)..SpawnJitter]_vars

(* C11's case: a tick has found the spawn timer used up with the score     *)
(* above 500; it has launched a dish, set the timer anew and deferred a    *)
(* second spawn.                                                           *)
C11_SpawnedAndDeferred ==
    /\ state = "playing" /\ lastTime = now /\ log = << <<"render">> >>
    /\ score > DifficultyScale
    /\ timeouts = <<now + ExtraSpawnDelay>>
    /\ spawnTimer = spawnInterval + 1000
    /\ Len(dishes) > 0

(* C12: a deferred spawn fires once its 0.2 s have passed, whether or not  *)
(* a frame runs, and adds exactly one dish to the dishes of the game,      *)
(* whatever the phase is then: Playing, Paused, GameOver, after destroy()  *)
(* and after the reset of a start(); it changes nothing else.              *)
C12_DeferredSpawn ==
    [][SpawnTimeout =>
        /\ Len(timeouts) > 0 /\ timeouts[1] <= now
        /\ timeouts' = Tail(timeouts)
        /\ Len(dishes') = Len(dishes) + 1
        /\ SubSeq(dishes', 1, Len(dishes)) = dishes
        /\ dishes'[Len(dishes')].y = (ScreenHeight + SpawnDepth) * PosScale
        /\ ~dishes'[Len(dishes')].isSliced
        /\ UNCHANGED <<state, score, combo, comboTimer, lives, spawnTimer,
                       spawnInterval, difficulty, lastTime, animationFrameId,
                       trail, isActive, particles, highScore, hud, now,
                       rafPending, frameDue>>]_vars

(* C12's case: the deferred spawn has fired in a paused game, and its dish *)
(* is the last of the dishes, where it was launched.                       *)
C12_SpawnedWhilePaused ==
    /\ state = "paused" /\ timeouts = <<>> /\ log = <<>>
    /\ score > DifficultyScale
    /\ now >= epoch + ExtraSpawnDelay - RepaintStep - RepaintStep
    /\ Len(dishes) > 0
    /\ dishes[Len(dishes)].y = (ScreenHeight + SpawnDepth) * PosScale
    /\ dishes[Len(dishes)].rotation = 0

(* C13, as the code has it: nothing cancels the requested frame when the   *)
(* game leaves Playing.  pause() and the transition to GameOver leave the  *)
(* callback pending, and in every phase but Playing the frame callback     *)
(* still runs at each repaint: it takes the time, paints the canvas and    *)
(* requests the next frame, and runs no update, so that nothing of the     *)
(* game changes.                                                           *)
C13_LoopKeepsRunning ==
    [][/\ CallPause =>
            rafPending' = rafPending /\ animationFrameId' = animationFrameId
       /\ (state = "playing" /\ state' \in {"paused", "gameOver"}) =>
            rafPending' = rafPending \/ (Frame /\ rafPending' # {})
       /\ (Frame /\ state # "playing") =>
            /\ rafPending' = {animationFrameId'}
            /\ lastTime' = now
            /\ log' = << <<"render">> >>
            /\ UNCHANGED <<state, score, combo, comboTimer, lives, spawnTimer,
                           spawnInterval, difficulty, dishes, trail, isActive,
                           particles, highScore, isMusicPlaying, hud, now,
                           timeouts>>]_vars

(* C13's case: a frame callback has run in a paused game.                  *)
C13_PaintedWhilePaused ==
    /\ state = "paused" /\ log = << <<"render">> >>
    /\ lastTime = now /\ ~frameDue
    /\ rafPending = {animationFrameId}

(* C13 as stated: when the game leaves Playing, by pause() or by the       *)
(* transition to GameOver, the requested frame is cancelled: no callback   *)
(* is pending after the step.                                              *)
C13_CancelledOnLeaving ==
    [][(state = "playing" /\ state' \in {"paused", "gameOver"}) =>
            rafPending' = {}]_vars

(* C14: at most one frame callback is pending at any time, and it is the   *)
(* one animationFrameId names; a start() of a game whose loop runs does    *)
(* not start a second loop.                                                *)
C14_OneLoop ==
    /\ Cardinality(rafPending) <= 1
    /\ rafPending \subseteq {animationFrameId}
    /\ animationFrameId = 0 => rafPending = {}

(* C14's case: start() has been called again while a frame was requested.  *)
C14_RestartedInLoop ==
    /\ log = StartLog /\ state = "playing"
    /\ animationFrameId # 0
    /\ rafPending = {animationFrameId}

(* C15: destroy() cancels the requested frame and stops the music, in any  *)
(* phase; once the frame of a loop is cancelled none is requested again,   *)
(* so that no frame callback runs from then on.                            *)
C15_Destroyed ==
    [][/\ CallDestroy =>
            /\ rafPending' = {}
            /\ ~isMusicPlaying'
            /\ UNCHANGED <<state, score, combo, lives, dishes, animationFrameId>>
       /\ (animationFrameId # 0 /\ rafPending = {}) =>
            /\ rafPending' = {}
            /\ animationFrameId' = animationFrameId
            /\ ~Frame]_vars

(* C15's case: the loop of a game in play has been destroyed; a repaint    *)
(* is due and no callback is there to run.                                 *)
C15_NothingToRun ==
    /\ state = "playing" /\ frameDue
    /\ animationFrameId # 0 /\ rafPending = {}
    /\ ~isMusicPlaying
    /\ lastTime < now

(* C16: every tick runs with dt <= 0.1 s whatever time has passed since    *)
(* the last frame: the timers lose min(now - lastTime, 0.1 s).  Every      *)
(* frame callback and every resume() of a paused game set lastTime to the  *)
(* current time, so that the time spent Paused is in no dt.                *)
C16_TimeStep ==
    /\ [](lastTime <= now)
    /\ [][/\ PlayingTick =>
               \E dt \in 0..MaxDt :
                   /\ dt <= now - lastTime
                   /\ now - lastTime > MaxDt => dt = MaxDt
                   /\ now - lastTime <= MaxDt => dt = now - lastTime
                   /\ combo > 0 => comboTimer' = comboTimer - dt * TimerPerCs
                   /\ spawnTimer - dt * TimerPerCs > 0 =>
                         spawnTimer' = spawnTimer - dt * TimerPerCs
          /\ Frame => lastTime' = now
          /\ (CallResume /\ state = "paused") => lastTime' = now
          /\ (CallResume /\ state # "paused") => lastTime' = lastTime]_vars

(* C16's case: 0.12 s after the last frame a tick has run, and the combo   *)
(* timer has lost 0.1 s: from 0.12 s it is at 0.02 s.                      *)
C16_Capped ==
    /\ state = "playing" /\ log = << <<"render">> >>
    /\ now = epoch + HiddenStep /\ lastTime = now
    /\ combo > 0
    /\ comboTimer = 600 - MaxDt * TimerPerCs

(* The angles slice is tried with: along x, and down and up along y.       *)
SliceAngles == {<<UnitScale, 0>>, <<0, UnitScale>>, <<0, -UnitScale>>}

(* C17: slice makes isSliced true and neither slice nor update makes it    *)
(* false again; slice(angle) on a sliced dish changes nothing of it, so    *)
(* that slice after slice is the first slice; and no collision pass        *)
(* changes a dish that is sliced.                                          *)
C17_SlicedStays ==
    /\ [](\A i \in 1..Len(dishes) : \A a \in SliceAngles :
            /\ DishSlice(dishes[i], a).isSliced
            /\ dishes[i].isSliced => DishSlice(dishes[i], a) = dishes[i]
            /\ \A b \in SliceAngles :
                  DishSlice(DishSlice(dishes[i], a), b) = DishSlice(dishes[i], a)
            /\ \A dt \in {0, 1, MaxDt} :
                  /\ DishUpdate(dishes[i], dt, Gravity).isSliced = dishes[i].isSliced
                  /\ DishUpdate(DishSlice(dishes[i], a), dt, Gravity).isSliced
                  /\ DishUpdate(DishSlice(dishes[i], a), dt, Gravity).sliceAngle
                        = DishSlice(dishes[i], a).sliceAngle)
    /\ [][PointerMove =>
            \A i \in 1..Len(dishes) :
                dishes[i].isSliced =>
                    /\ dishes'[i].isSliced
                    /\ dishes'[i].sliceAngle = dishes[i].sliceAngle
                    /\ dishes'[i].halfVelocity1 = dishes[i].halfVelocity1
                    /\ dishes'[i].halfVelocity2 = dishes[i].halfVelocity2]_vars

(* C17's case: a collision pass has sliced a dish while another dish, cut  *)
(* along y and updated since, was among the dishes.                        *)
C17_SlicedAmongSliced ==
    /\ state = "playing" /\ Len(log) > 0 /\ log[1] = <<"play", "slice">>
    /\ \E i \in 1..Len(dishes) :
          /\ dishes[i].isSliced
          /\ dishes[i].sliceAngle = <<0, UnitScale>>
          /\ dishes[i].sliceOffset > 0
    /\ \E i \in 1..Len(dishes) :
          dishes[i].isSliced /\ dishes[i].sliceOffset = 0

(* C19: canSlice is true iff the gesture is active and currentSpeed is at  *)
(* least 300 px/s.  endSlice() makes it false and only a startSlice() in a *)
(* game in play makes the gesture active again; a dish is sliced only by a *)
(* pointer move after which the gesture is active and the speed is at      *)
(* least 300 px/s, and while the gesture is not active only start()        *)
(* changes the score.                                                      *)
C19_CanSlice ==
    /\ [](CanSlice(trail, isActive, now)
            <=> (isActive /\ CurrentSpeed(trail, now) >= MinSliceSpeed))
    /\ [][/\ PointerUp => ~isActive' /\ ~CanSlice(trail', isActive', now')
          /\ (~isActive /\ isActive') => (PointerDown /\ state = "playing")
          /\ Count(log', <<"play", "slice">>) > 0 =>
                /\ PointerMove
                /\ isActive /\ isActive'
                /\ CurrentSpeed(trail', now') >= MinSliceSpeed
          /\ (~isActive /\ score' # score) => CallStart]_vars

(* C19's case: the gesture has ended with a speed of at least 300 px/s,    *)
(* and a dish not sliced has come under a recent point of the trail.       *)
C19_EndedOverADish ==
    /\ state = "playing" /\ ~isActive
    /\ CurrentSpeed(trail, now) >= MinSliceSpeed
    /\ \E i \in 1..Len(dishes) : Hit(dishes[i], GetRecentPoints(trail, now))

----------------------------------------------------------------------------
(* Swipes over a dish.  The game of ComboOfThree goes on with one dish in  *)
(* the air, drawn from DrawnDishes: falling pizzas and a burger that are   *)
(* at, or 0.01 px within, the distance of their radius from the point      *)
(* (400, 590), a pizza in the corner of the square around its circle, and  *)
(* a sliced pizza under that point.  The pointer goes down and moves where *)
(* SwipeDowns and SwipeMoves say.                                          *)
Falling(x, y, size, type) == NewDish(x, y, 0, 700, type, 2, size)

DrawnDishes ==
    {Falling(40000, 62000, 60, "pizza"), Falling(40000, 61999, 60, "pizza"),
     Falling(41800, 61400, 60, "pizza"), Falling(41799, 61400, 60, "pizza"),
     Falling(42500, 61500, 60, "pizza"),
     Falling(40000, 63450, 89, "burger"), Falling(40000, 63449, 89, "burger"),
     DishSlice(Falling(40000, 59000, 60, "pizza"), <<UnitScale, 0>>)}

SwipeDowns == {<<0, 0>>, <<370, 590>>}

SwipeMoves == {<<300, 0>>, <<400, 590>>}

InitSwipe ==
    \E s \in Run({Constructed(0, TRUE, 0)}, ComboOfThree), d \in DrawnDishes :
        /\ Holds([s EXCEPT !.dishes = <<d>>])
        /\ epoch = s.now

SwipeDown ==
    \E p \in SwipeDowns :
        /\ p \in SwipeDowns
        /\ Commit(HandlePointerDown(Cur, p[1], p[2]))

SwipeMove ==
    \E p \in SwipeMoves :
        /\ (state = "playing" /\ isActive) => Len(trail) < MaxTrail
        /\ Commit(HandlePointerMove(Cur, p[1], p[2]))

NextSwipe ==
    \/ SwipeDown
    \/ SwipeMove
    \/ PointerUp
    \/ Frame
    \/ AdvanceClock

SpecSwipe == InitSwipe /\ [][NextSwipe]_vars

(* The point (x, y), in px, is less than the dish's radius from its        *)
(* centre: 4 * (dx^2 + dy^2) < size^2.  No radius is above 45 px, and the  *)
(* squares are taken within 100 px of the centre.                          *)
WithinRadius(d, x, y) ==
    /\ Abs(x * PosScale - d.x) <= 100 * PosScale
    /\ Abs(y * PosScale - d.y) <= 100 * PosScale
    /\ 4 * ((x * PosScale - d.x) * (x * PosScale - d.x)
            + (y * PosScale - d.y) * (y * PosScale - d.y))
          < (d.size * PosScale) * (d.size * PosScale)

(* C18: containsPoint(x, y) of a dish not sliced is true iff the squared   *)
(* distance of (x, y) from its centre is less than (size/2)^2, so that a   *)
(* point at the radius is not contained, and it is false for a sliced      *)
(* dish; and a collision pass slices exactly the dishes not sliced that    *)
(* have a recent point of the slicer within their radius.                  *)
C18_ContainsPoint ==
    /\ [](\A i \in 1..Len(dishes) : \A p \in SwipeDowns \cup SwipeMoves :
            ContainsPoint(dishes[i], p[1], p[2])
                <=> (~dishes[i].isSliced /\ WithinRadius(dishes[i], p[1], p[2])))
    /\ [][SwipeMove =>
            \A i \in 1..Len(dishes) :
                (~dishes[i].isSliced /\ dishes'[i].isSliced)
                    <=> /\ ~dishes[i].isSliced
                        /\ state = "playing"
                        /\ CanSlice(trail', isActive', now')
                        /\ \E k \in 1..Len(trail') :
                              /\ now' - trail'[k].time < RecentWindow
                              /\ WithinRadius(dishes[i], trail'[k].x, trail'[k].y)]_vars

(* C18's case: a pass has run with the pointer at (400, 590), 18 px and    *)
(* 24 px from the centre of a pizza of radius 30 px, and the pizza is not  *)
(* sliced.                                                                 *)
C18_AtTheRadius ==
    /\ state = "playing" /\ CanSlice(trail, isActive, now)
    /\ trail[Len(trail)] = [x |-> 400, y |-> 590, time |-> now]
    /\ Len(dishes) = 1
    /\ dishes[1] = Falling(41800, 61400, 60, "pizza")

(* The speed of the trail as the claim states it: over the samples younger *)
(* than 0.05 s, the distance from the oldest to the newest by the time     *)
(* between them, and 0 with fewer than two of them or no time between.     *)
InWindow == {k \in 1..Len(trail) : now - trail[k].time < SpeedWindow}

Oldest == CHOOSE k \in InWindow : \A j \in InWindow : k <= j

Newest == CHOOSE k \in InWindow : \A j \in InWindow : k >= j

StatedSpeed ==
    IF Cardinality(InWindow) < 2 THEN 0
    ELSE IF trail[Newest].time - trail[Oldest].time <= 0 THEN 0
    ELSE (Sqrt((trail[Newest].x - trail[Oldest].x) * (trail[Newest].x - trail[Oldest].x)
               + (trail[Newest].y - trail[Oldest].y) * (trail[Newest].y - trail[Oldest].y))
          * CsPerSec) \div (trail[Newest].time - trail[Oldest].time)

(* C20: currentSpeed is distance(oldest, newest) / (t_newest - t_oldest)   *)
(* over the samples younger than 0.05 s, and 0 with fewer than two such    *)
(* samples or a time delta <= 0: the samples (0, 0) and (300, 0) taken     *)
(* 0.04 s apart give 7500 px/s, and taken at the same time give 0.         *)
C20_CurrentSpeed ==
    /\ CurrentSpeed(trail, now) = StatedSpeed
    /\ \A t \in {now - 4, now} :
          trail = << [x |-> 0, y |-> 0, time |-> t],
                     [x |-> 300, y |-> 0, time |-> now] >>
              => CurrentSpeed(trail, now) = (IF t = now THEN 0 ELSE 7500)
    /\ (Len(trail) = 2 /\ now - trail[1].time >= SpeedWindow)
          => CurrentSpeed(trail, now) = 0

(* C20's case: the pointer went down at (0, 0) and has moved to (300, 0)   *)
(* 0.04 s later; the speed is 7500 px/s.                                   *)
C20_FastSwipe ==
    /\ trail = << [x |-> 0, y |-> 0, time |-> now - 4],
                  [x |-> 300, y |-> 0, time |-> now] >>
    /\ isActive
    /\ CurrentSpeed(trail, now) = 7500

----------------------------------------------------------------------------
(* C21: moveSlice(x, y) on a slicer whose gesture is not active, never     *)
(* started or ended, changes nothing: the trail, the active flag and the   *)
(* last position stay, and nothing is played or fired; on an active        *)
(* gesture it appends exactly one sample, (x, y) stamped with the current  *)
(* time, and makes (x, y) the last position.                               *)
C21_MoveSlice ==
    /\ [](\A p \in PointerMoves \cup SwipeMoves :
            MoveSlice(Cur, p[1], p[2]) =
                (IF isActive
                 THEN [Cur EXCEPT
                          !.trail = trail \o << [x |-> p[1], y |-> p[2],
                                                 time |-> now] >>,
                          !.lastPosition = p]
                 ELSE Cur))
    /\ [][PointerMove =>
            IF state = "playing" /\ isActive
            THEN /\ \E p \in PointerMoves :
                       /\ trail' = Append(trail, [x |-> p[1], y |-> p[2],
                                                  time |-> now])
                       /\ lastPosition' = p
                 /\ isActive'
            ELSE /\ Untouched
                 /\ log' = <<>>]_vars

(* C21's case: the gesture of a game in play has ended with its samples    *)
(* still in the trail, and the pointer has moved on: the trail, the flag   *)
(* and the last position are those of the gesture.                         *)
C21_MovedAfterTheEnd ==
    /\ state = "playing" /\ ~isActive /\ log = <<>>
    /\ Len(trail) = MaxTrail
    /\ trail[Len(trail)].time = now
    /\ lastPosition = <<trail[Len(trail)].x, trail[Len(trail)].y>>

(* C22, as the code has it: endSlice() makes the gesture not active and    *)
(* leaves the trail and everything else as it is; samples leave the trail  *)
(* only by the prune of a tick and by the next startSlice().  From then on *)
(* canSlice is false, so that a swipe just ended slices nothing: a dish    *)
(* not sliced that lies on its recent points stays unsliced through every  *)
(* pointer move and every tick, until a new gesture is started.            *)
C22_EndSlice ==
    [][/\ PointerUp =>
            /\ ~isActive'
            /\ trail' = trail
            /\ Untouched \/ isActive
            /\ UNCHANGED <<state, score, combo, comboTimer, lives, dishes,
                           lastPosition, particles, now>>
            /\ log' = <<>>
       /\ trail' # trail => PointerDown \/ PointerMove \/ PlayingTick
       /\ (PlayingTick /\ ~(PointerDown \/ PointerMove)) =>
            trail' = SelectSeq(trail, LAMBDA q : now - q.time < TrailMaxAge)
       /\ (~isActive /\ ~isActive') =>
            /\ ~CanSlice(trail', isActive', now')
            /\ Count(log', <<"play", "slice">>) = 0
            /\ score' = score \/ CallStart
            /\ \A i \in 1..Len(dishes) :
                  (PointerMove /\ ~dishes[i].isSliced) => dishes'[i] = dishes[i]]_vars

(* C22's case: the gesture has ended with both its samples in the trail, a *)
(* speed of 750 px/s and a pizza not sliced on its last point; the pointer *)
(* has moved on and the pizza is not sliced.                               *)
C22_EndedOnADish ==
    /\ state = "playing" /\ ~isActive /\ log = <<>>
    /\ Len(trail) = 2 /\ trail[2].time = now
    /\ lastPosition = <<trail[2].x, trail[2].y>>
    /\ CurrentSpeed(trail, now) = 750
    /\ \E i \in 1..Len(dishes) :
          /\ ~dishes[i].isSliced
          /\ ContainsPoint(dishes[i], trail[2].x, trail[2].y)

(* C22 as stated: a swipe just ended still registers collisions: while its *)
(* recent points lie on a dish not sliced and its speed is at least 300    *)
(* px/s, the collision pass of a pointer move slices such a dish.          *)
C22_EndedStillSlices ==
    [][(/\ PointerMove /\ state = "playing" /\ ~isActive
        /\ CurrentSpeed(trail, now) >= MinSliceSpeed
        /\ \E i \in 1..Len(dishes) : Hit(dishes[i], GetRecentPoints(trail, now)))
       => \E i \in 1..Len(dishes) :
             /\ i <= Len(dishes')
             /\ ~dishes[i].isSliced /\ dishes'[i].isSliced]_vars

----------------------------------------------------------------------------
(* The game without sound.  The recorded games are played again on a page  *)
(* whose audio initialisation has not completed or has failed, and the     *)
(* runs explored begin where they lead as well as on the page just loaded. *)
Silent == {ComboOfThree, LastLife, Seasoned}

InitAudio ==
    \E s \in {Constructed(stored, audio, 0) :
                  stored \in StoredHighScores, audio \in BOOLEAN}
              \cup UNION {Run({Constructed(0, FALSE, 0)}, es) : es \in Silent} :
        /\ Holds(s)
        /\ epoch = s.now

SpecAudio == InitAudio /\ [][Next]_vars

(* The state s with the audio collaborator in another state: initialised   *)
(* or not, and with the music playing or not.                              *)
WithAudio(s, ok, playing) ==
    [s EXCEPT !.audioOk = ok, !.isMusicPlaying = playing]

(* The state of the simulation in s: everything but the audio's own state. *)
Simulation(s) == WithAudio(s, FALSE, FALSE)

(* The event e can happen, and leads to the same simulation state,         *)
(* whatever state the audio collaborator is in.                            *)
SameWithAudio(e, ok, playing) ==
    /\ Can(WithAudio(Cur, ok, playing), e) = Can(Cur, e)
    /\ Can(Cur, e) =>
          Simulation(Do(WithAudio(Cur, ok, playing), e)) = Simulation(Do(Cur, e))

(* The other three states of the audio collaborator.                       *)
Regardless(e) ==
    /\ SameWithAudio(e, ~audioOk, FALSE)
    /\ SameWithAudio(e, ~audioOk, TRUE)
    /\ SameWithAudio(e, audioOk, ~isMusicPlaying)

(* C23: the simulation does not depend on the audio collaborator.  In      *)
(* every reachable state each call of the UI, pointer event, frame with    *)
(* its random draws, deferred spawn and step of the clock leads to the     *)
(* same phase, score, combo, lives, timers, dishes, trail, particles,      *)
(* stored record, HUD, callbacks and pending frames and timers whether the *)
(* audio is initialised or not and whether music plays or not; so runs     *)
(* that differ only in the audio agree on all of these at every step.      *)
C23_AudioIndependent ==
    /\ \A r \in UpdateDraws : Regardless(<<"start", r>>) /\ Regardless(<<"frame", r>>)
    /\ \A d \in DishDraws : Regardless(<<"timeout", d>>)
    /\ \A p \in PointerDowns : Regardless(<<"down", p>>)
    /\ \A p \in PointerMoves : Regardless(<<"move", p>>)
    /\ \A d \in {RepaintStep, HiddenStep} : Regardless(<<"clock", d>>)
    /\ Regardless(<<"pause">>) /\ Regardless(<<"resume">>)
    /\ Regardless(<<"destroy">>) /\ Regardless(<<"up">>)

(* C23's case: without audio the last life has been lost in a tick: the    *)
(* miss and the game-over cue were played to no effect, the music was      *)
(* stopped, and the game is over as it is with sound.                      *)
C23_GameOverInSilence ==
    /\ ~audioOk /\ ~isMusicPlaying
    /\ state = "gameOver" /\ lives = 0
    /\ Count(log, <<"play", "miss">>) > 0
    /\ Count(log, <<"play", "gameOver">>) = 1
    /\ Fired(log, "onGameOver") # {}

----------------------------------------------------------------------------
(* C24: the isNewRecord flag onGameOver delivers for a session is true iff *)
(* the session's final score is greater than the high score stored before  *)
(* the session ended; after the game over the stored high score is the     *)
(* greater of the previous high score and the final score, and the stored  *)
(* high score never decreases.                                             *)
C24_NewRecord ==
    [][/\ highScore' >= highScore
       /\ Fired(log', "onGameOver") # {} =>
            /\ highScore' = Max(highScore, score')
            /\ \A i \in Fired(log', "onGameOver") :
                  /\ log'[i][2] = score'
                  /\ log'[i][3] = (score' > highScore)
            /\ hud'.newRecord = (score' > highScore)]_vars

----------------------------------------------------------------------------
(* C25: at the end of every tick of a game in play no dish of the game is  *)
(* off the screen (y > screenHeight + size) and no sliced dish has         *)
(* alpha <= 0; the dishes that were neither after their physics are all    *)
(* still there, in their order, followed by nothing but the dish the tick  *)
(* has launched.  A sliced dish loses 0.5 of alpha per second of simulated *)
(* time, as its halves drift apart by 200 px per second, so that it is     *)
(* among the dishes for less than 2 s of simulated time after its slice.   *)
C25_Swept ==
    /\ [](\A i \in 1..Len(dishes) :
            /\ ~IsOffScreen(dishes[i], ScreenHeight)
            /\ dishes[i].isSliced =>
                  /\ dishes[i].alpha > 0
                  /\ 2 * (AlphaScale - dishes[i].alpha) = dishes[i].sliceOffset
                  /\ dishes[i].sliceOffset < 2 * 2 * CsPerSec)
    /\ [][PlayingTick =>
            /\ \A j \in 1..Len(dishes') :
                  /\ dishes'[j].y <= (ScreenHeight + dishes'[j].size) * PosScale
                  /\ ~(dishes'[j].isSliced /\ dishes'[j].alpha <= 0)
            /\ Len(dishes') \in {Len(Staying), Len(Staying) + 1}
            /\ SubSeq(dishes', 1, Len(Staying)) = Staying
            /\ \A i \in 1..Len(dishes) :
                  (/\ Moved[i].y <= (ScreenHeight + Moved[i].size) * PosScale
                   /\ ~(Moved[i].isSliced /\ Moved[i].alpha <= 0))
                  => \E j \in 1..Len(dishes') : dishes'[j] = Moved[i]
            /\ \A i \in 1..Len(dishes) :
                  (Moved[i].isSliced /\ Moved[i].alpha <= 0)
                  => \A j \in 1..Len(dishes') : dishes'[j] # Moved[i]]_vars

(* C25's case: three ticks of 0.04 s have taken the first sushi, sliced    *)
(* 1.88 s of simulated time before, from an alpha of 0.06 to exactly 0,    *)
(* and the third has removed it; the second sushi, sliced 0.86 s before,   *)
(* is the one dish left.                                                   *)
C25_FadedOut ==
    /\ state = "playing" /\ log = << <<"render">> >> /\ lastTime = now
    /\ score = 40
    /\ Len(dishes) = 1
    /\ dishes[1].isSliced
    /\ dishes[1].alpha = AlphaScale - 86
    /\ dishes[1].sliceOffset = 172

----------------------------------------------------------------------------
(* C26: startSlice(x, y), whatever the state of the slicer, makes the      *)
(* gesture active and the trail the one sample (x, y) stamped with the     *)
(* current time: no sample of an earlier gesture is left, so that right    *)
(* after it currentSpeed is 0 and canSlice is false.  Outside a game in    *)
(* play a pointer-down does not reach the slicer.                          *)
C26_StartSlice ==
    [][PointerDown =>
        IF state = "playing"
        THEN /\ \E p \in PointerDowns :
                   /\ trail' = << [x |-> p[1], y |-> p[2], time |-> now] >>
                   /\ lastPosition' = p
             /\ isActive'
             /\ CurrentSpeed(trail', now') = 0
             /\ ~CanSlice(trail', isActive', now')
             /\ UNCHANGED <<state, score, combo, comboTimer, lives, dishes,
                            particles, now>>
        ELSE /\ Untouched
             /\ log' = <<>>]_vars

(* C26's case: a gesture has sliced a dish, and in the same instant the    *)
(* pointer has gone down again: of the samples of that gesture none is in  *)
(* the trail.                                                              *)
C26_StartedAnew ==
    /\ state = "playing" /\ isActive /\ log = <<>>
    /\ combo > 0 /\ comboTimer = ComboTimeout
    /\ Len(trail) = 1 /\ trail[1].time = now
    /\ lastPosition = <<trail[1].x, trail[1].y>>
    /\ ~CanSlice(trail, isActive, now)

----------------------------------------------------------------------------
(* C27: with a clock that does not run backwards the trail is ordered by   *)
(* non-decreasing timestamp in every reachable state, after any            *)
(* interleaving of startSlice, moveSlice, endSlice and the prune of        *)
(* update; and no sample is stamped later than the current time.           *)
C27_TrailOrdered ==
    /\ \A i \in 1..Len(trail) : \A j \in i..Len(trail) :
          trail[i].time <= trail[j].time
    /\ \A i \in 1..Len(trail) : trail[i].time <= now

(* C27's case: a gesture has taken two samples at different times, it has  *)
(* ended, and a tick has pruned the trail since and kept both.             *)
C27_TwoSamplesKept ==
    /\ state = "playing" /\ ~isActive
    /\ log = << <<"render">> >> /\ lastTime = now
    /\ Len(trail) = 2
    /\ trail[1].time < trail[2].time
    /\ trail[2].time < now

----------------------------------------------------------------------------
(* The samples of the trail that are younger than window, by index.        *)
YoungerThan(window) == {k \in 1..Len(trail) : now - trail[k].time < window}

(* C28, as the code has it: Slicer.update() is run once in every tick of a *)
(* game in play, and not by the frames of the other phases, which leave    *)
(* the trail as it is.  It removes exactly the samples whose age is        *)
(* >= 0.15 s and keeps the younger ones in their order.  getRecentPoints() *)
(* returns exactly the positions of the samples younger than 0.03 s, in    *)
(* order, all of which are among the samples younger than 0.05 s that      *)
(* currentSpeed uses.                                                      *)
C28_Prune ==
    /\ [](/\ Len(GetRecentPoints(trail, now)) = Cardinality(YoungerThan(RecentWindow))
          /\ \A k \in YoungerThan(RecentWindow) :
                /\ k \in YoungerThan(SpeedWindow)
                /\ k > Len(trail) - Cardinality(YoungerThan(RecentWindow))
                /\ GetRecentPoints(trail, now)
                       [k - (Len(trail) - Cardinality(YoungerThan(RecentWindow)))]
                   = <<trail[k].x, trail[k].y>>)
    /\ [][/\ (PlayingTick /\ ~PointerDown /\ ~PointerMove) =>
               /\ Len(trail') = Cardinality(YoungerThan(TrailMaxAge))
               /\ trail' = SubSeq(trail, Len(trail) - Len(trail') + 1, Len(trail))
               /\ \A k \in 1..Len(trail) :
                     now - trail[k].time >= TrailMaxAge
                         <=> k <= Len(trail) - Len(trail')
          /\ (Frame /\ state # "playing") => trail' = trail]_vars

(* C28's case: a tick has found the first sample of an active gesture      *)
(* exactly 0.15 s old and has removed it; the sample of the pointer move,  *)
(* 0.07 s old, is the trail.                                               *)
C28_PrunedAtMaxAge ==
    /\ state = "playing" /\ isActive
    /\ log = << <<"render">> >> /\ lastTime = now
    /\ trail = << [x |-> 400, y |-> 590, time |-> now - 7] >>
    /\ GetRecentPoints(trail, now) = <<>>

(* C28 as stated: Slicer.update() is run once per frame: every frame       *)
(* callback removes the samples whose age is >= 0.15 s from the trail.     *)
C28_PrunedEachFrame ==
    [][Frame =>
        \A k \in 1..Len(trail') : now - trail'[k].time < TrailMaxAge]_vars

----------------------------------------------------------------------------
(* Particles in a game that is left alone.  The games of ComboOfThree and  *)
(* LastLife go on without a pointer: the clock runs for ParticleSpan cs,   *)
(* the host repaints, and the UI may start the game anew.  The host's      *)
(* clock does not stop and its scheduler runs a requested frame callback   *)
(* at the next repaint, which the fairness conditions say.                 *)
ParticleSpan == 24

InitParticles ==
    \E es \in {ComboOfThree, LastLife} :
        \E s \in Run({Constructed(0, TRUE, 0)}, es) :
            /\ Holds(s)
            /\ epoch = s.now

ClockRuns ==
    \E d \in {RepaintStep, HiddenStep} :
        /\ now + d - epoch <= ParticleSpan
        /\ CanTick(Cur)
        /\ Commit(Tick(Cur, d))

NextParticles ==
    \/ ClockRuns
    \/ Frame
    \/ CallStart

(* Weak fairness of the frame callback, with its enabling condition, that  *)
(* a repaint is due and a callback is requested, written out.              *)
FrameFairness == []<>(~CanFrame(Cur)) \/ []<><<Frame>>_vars

SpecParticles ==
    InitParticles /\ [][NextParticles]_vars
    /\ WF_vars(ClockRuns) /\ FrameFairness


(* C29: ParticleSystem.update(dt) takes dt / maxLife from the life of each *)
(* particle and removes exactly those whose life is then <= 0: the         *)
(* particles left are the ones with life > 0, each stepped once, in their  *)
(* order.  A particle of the game has a life in (0, 1], so under the ticks *)
(* of a game in play, each with dt > 0, every particle is removed in the   *)
(* end; and start() leaves no particle.                                    *)
C29_Particles ==
    /\ [](\A i \in 1..Len(particles) :
            particles[i].life > 0 /\ particles[i].life <= LifeScale)
    /\ [][/\ PlayingTick =>
               LET Stepped == [i \in 1..Len(particles) |->
                                  ParticleStep(particles[i], TickDt)]
               IN  /\ \A i \in 1..Len(particles) :
                         Stepped[i].life
                            = particles[i].life
                              - (LifeScale * TickDt) \div particles[i].maxLife
                   /\ Len(particles')
                         = Cardinality({i \in 1..Len(particles) :
                                           Stepped[i].life > 0})
                   /\ particles' = SelectSeq(Stepped, LAMBDA q : q.life > 0)
                   /\ \A i \in 1..Len(particles) :
                         Stepped[i].life > 0
                            <=> \E j \in 1..Len(particles') :
                                   particles'[j] = Stepped[i]
          /\ CallStart => particles' = <<>>]_vars
    /\ (Len(particles) > 0) ~> (particles = <<>> \/ state # "playing")

(* C29's case: of the three bursts of the combo of three the first had     *)
(* 0.04 s of life left; a tick of 0.04 s has taken it to exactly 0 and     *)
(* removed its 7 particles, and the 14 of the other two are left.          *)
C29_BurstSpent ==
    /\ state = "playing" /\ log = << <<"render">> >> /\ lastTime = now
    /\ Len(particles) = 14
    /\ \A i \in 1..Len(particles) : particles[i].life \in {20, 40}

----------------------------------------------------------------------------
(* The flight of one unsliced dish at sixty updates a second.  A sixtieth  *)
(* of a second is no whole number of cs, so in this part dt counts         *)
(* sixtieths of a second, and a position and the rotation are in 1/300 px  *)
(* and 1/300 rad: with a speed in whole px/s every step of Dish.update is  *)
(* then a whole number, and nothing is rounded.  dishes holds the flight:  *)
(* the dish as launched, then the dish after each update.                  *)
UpdatesPerSec == 60
FlightScale == 300
MaxUpdates == 60

(* rate * dt for a rate per second and a dt in 1/60 s, in units of 1/scale.*)
PerUpdate(rate, dt, scale) == (rate * dt * scale) \div UpdatesPerSec

(* An update that moves the dish by the velocity it had before.            *)
UnslicedUpdateByOldVelocity(d, dt, gravity) ==
    LET vy == d.vy + PerUpdate(gravity, dt, 1)
    IN  [d EXCEPT !.vy = vy,
                  !.x = @ + PerUpdate(d.vx, dt, FlightScale),
                  !.y = @ + PerUpdate(d.vy, dt, FlightScale),
                  !.rotation = @ + PerUpdate(d.rotationSpeed, dt, FlightScale)]

(* Dish.update(dt, gravity) of a dish that is not sliced, dt in 1/60 s.    *)
UnslicedUpdate(d, dt, gravity) ==
    LET vy == d.vy + PerUpdate(gravity, dt, 1)
    IN  [d EXCEPT !.vy = vy,
                  !.x = @ + PerUpdate(d.vx, dt, FlightScale),
                  !.y = @ + PerUpdate(vy, dt, FlightScale),
                  !.rotation = @ + PerUpdate(d.rotationSpeed, dt, FlightScale)]

(* Dishes in the air: thrown up from below the screen, at the top of the   *)
(* flight, and falling.                                                    *)
InitFlight ==
    \E y \in {650, 300}, vx \in {0, -45}, vy \in {-700, 0, 123} :
        /\ Holds([Constructed(0, TRUE, 0) EXCEPT !.dishes =
                      <<NewDish(400 * FlightScale, y * FlightScale, vx, vy,
                                "sushi", 2, 60)>>])
        /\ epoch = 0

DishFlies ==
    /\ Len(dishes) <= MaxUpdates
    /\ ~dishes[Len(dishes)].isSliced
    /\ Commit([Cur EXCEPT !.dishes =
                   Append(dishes, UnslicedUpdate(dishes[Len(dishes)], 1, Gravity))])

SpecFlight == InitFlight /\ [][DishFlies]_vars

(* y0 + vy0 * t + g * t^2 / 2 at t = n / 60 s, in 1/300 px: a whole number *)
(* for g = 600.                                                            *)
ClosedForm(d, n, gravity) ==
    d.y + PerUpdate(d.vy, n, FlightScale)
        + (gravity * n * n * FlightScale) \div (2 * UpdatesPerSec * UpdatesPerSec)

(* C30: for an unsliced dish, N updates with dt = 1/60 and g = 600 leave   *)
(* it at y0 + vy0 * t + g * t * (t + dt) / 2 for t = N / 60, exactly: the  *)
(* velocity grows by g * dt before the dish moves, so every update moves   *)
(* it g * dt^2 = 1/6 px further than the mean velocity of the step would,  *)
(* half of which the closed form g * t^2 / 2 accounts for; the dish is     *)
(* g * dt * t / 2 = N / 12 px below the closed-form position, 5 px after a *)
(* second.  Its x and its rotation are the closed-form ones.               *)
C30_Flight ==
    \A n \in 0..(Len(dishes) - 1) :
        LET d0 == dishes[1]
            d == dishes[n + 1]
        IN  /\ d.vy = d0.vy + PerUpdate(Gravity, n, 1)
            /\ d.y = ClosedForm(d0, n, Gravity)
                         + (Gravity * n * FlightScale)
                               \div (2 * UpdatesPerSec * UpdatesPerSec)
            /\ d.x = d0.x + PerUpdate(d0.vx, n, FlightScale)
            /\ d.rotation = PerUpdate(d0.rotationSpeed, n, FlightScale)

(* A dish thrown up at 700 px/s from 650 px, one second (60 updates)       *)
(* later: at 255 px, where the closed form has it at 250 px.               *)
C30_AfterOneSecond ==
    /\ Len(dishes) = UpdatesPerSec + 1
    /\ dishes[1].y = 650 * FlightScale /\ dishes[1].vy = -700
    /\ dishes[Len(dishes)].y = 255 * FlightScale
    /\ ClosedForm(dishes[1], UpdatesPerSec, Gravity) = 250 * FlightScale

(* C30 as stated: after every number of updates the dish is at the         *)
(* closed-form position, up to rounding: within one unit of the position,  *)
(* 1/300 px.                                                               *)
C30_ClosedFormPosition ==
    \A n \in 0..(Len(dishes) - 1) :
        Abs(dishes[n + 1].y - ClosedForm(dishes[1], n, Gravity)) <= 1

----------------------------------------------------------------------------
(* C31: the score is never negative and the difficulty never below 1; no   *)
(* step but a start() lowers the score or the difficulty, and a start()    *)
(* takes them to 0 and to 1.                                               *)
C31_ScoreGrows ==
    /\ [](score >= 0 /\ difficulty >= DifficultyScale)
    /\ [][/\ (score' < score \/ difficulty' < difficulty) => CallStart
          /\ CallStart => score' = 0 /\ difficulty' = DifficultyScale]_vars

(* C31's case: a game in play whose score has grown by slices and whose    *)
(* difficulty an update has raised with it.                                *)
C31_Harder ==
    /\ state = "playing" /\ log = << <<"render">> >>
    /\ score >= 50
    /\ difficulty = DifficultyScale + score

----------------------------------------------------------------------------
(* C32: in every state 0 <= lives <= 3, and every value passed to          *)
(* onLivesChange is in 0..3.                                               *)
C32_LivesInRange ==
    /\ lives \in 0..MaxLives
    /\ \A i \in Fired(log, "onLivesChange") : log[i][2] \in 0..MaxLives

----------------------------------------------------------------------------
(* C33: after every operation the values last delivered through            *)
(* onScoreChange, onComboChange and onLivesChange are the score, the combo *)
(* and the lives of the game: an operation that delivers a value delivers  *)
(* the one the game has in the end, and an operation that delivers none    *)
(* leaves the value as it was.                                             *)
C33_Delivered ==
    [][\A f \in {<<"onScoreChange", score, score'>>,
                 <<"onComboChange", combo, combo'>>,
                 <<"onLivesChange", lives, lives'>>} :
          LET at == Fired(log', f[1])
          IN  IF at = {} THEN f[3] = f[2]
              ELSE \E i \in at : /\ \A j \in at : j <= i
                                 /\ log'[i][2] = f[3]]_vars

----------------------------------------------------------------------------
(* C34: in every state the combo is not negative, and a positive combo has *)
(* a positive timer.  Only a pointer move that slices raises the combo,    *)
(* and it leaves the timer at 0.8 s; a tick of a game in play that finds a *)
(* positive combo and takes the timer to 0 or below leaves the combo 0.    *)
C34_ComboTimed ==
    /\ [](combo >= 0 /\ (combo > 0 => comboTimer > 0))
    /\ [][/\ combo' > combo =>
               /\ PointerMove
               /\ Count(log', <<"play", "slice">>) > 0
               /\ comboTimer' = ComboTimeout
          /\ (PlayingTick /\ combo > 0 /\ comboTimer <= TickDt * TimerPerCs)
               => combo' = 0]_vars

(* C34's case: a tick has run the timer of a standing combo down to its    *)
(* last 0.1 s.                                                             *)
C34_NearlyExpired ==
    /\ state = "playing" /\ log = << <<"render">> >>
    /\ combo > 0
    /\ comboTimer \in 1..(MaxDt * TimerPerCs)

----------------------------------------------------------------------------
(* C35: whenever the phase is Playing a frame callback is pending, after   *)
(* every sequence of start(), pause(), resume() and destroy(); and every   *)
(* start() leaves a frame callback pending.                                *)
C35_LoopWhilePlaying ==
    /\ [](state = "playing" => rafPending # {})
    /\ [][CallStart => rafPending' # {}]_vars

----------------------------------------------------------------------------
(* C36: while the phase is not Playing, a frame callback, a pointer-down   *)
(* and a pointer-move leave the score, the combo and its timer, the lives, *)
(* the spawn timer, the dishes, the particles, the trail and the active    *)
(* flag as they are.  A pointer-up takes effect in every phase: the        *)
(* gesture is not active after it, and nothing else of these changes.      *)
C36_FrozenUnlessPlaying ==
    [][/\ (state # "playing" /\ (Frame \/ PointerDown \/ PointerMove)) =>
            UNCHANGED <<state, score, combo, comboTimer, lives, spawnTimer,
                        dishes, particles, trail, isActive>>
       /\ PointerUp =>
            /\ ~isActive'
            /\ UNCHANGED <<state, score, combo, comboTimer, lives, spawnTimer,
                           dishes, particles, trail>>]_vars

(* C36's case: a frame callback has run in a game that was paused in the   *)
(* middle of a gesture, with dishes in the air, a trail and particles.     *)
C36_PaintedInTheMiddle ==
    /\ state = "paused" /\ log = << <<"render">> >> /\ lastTime = now
    /\ isActive /\ Len(trail) > 0
    /\ Len(dishes) > 0 /\ Len(particles) > 0

----------------------------------------------------------------------------
(* C37: in a tick of a game in play the dish pass works on the dishes of   *)
(* the game and, behind them, the dish this tick has launched.  Each of    *)
(* them has its physics advanced once, by the dt of the tick; the ones     *)
(* then off the screen, or sliced with alpha <= 0, are removed, and the    *)
(* others are the dishes after the tick, each once and in their order: the *)
(* k-th of those kept is the k-th dish.  Each dish that leaves unsliced    *)
(* takes one life.                                                         *)
C37_DishPass ==
    [][PlayingTick =>
        \E r \in UpdateDraws :
            LET entering ==
                    IF spawnTimer - TickDt * TimerPerCs <= 0
                    THEN Append(dishes,
                                CreateRandomDish(ScreenWidth, ScreenHeight, r.dish))
                    ELSE dishes
                once == [i \in 1..Len(entering) |->
                            DishUpdate(entering[i], TickDt, Gravity)]
                kept == {i \in 1..Len(entering) :
                            /\ ~IsOffScreen(once[i], ScreenHeight)
                            /\ ~(once[i].isSliced /\ once[i].alpha <= 0)}
                missed == {i \in 1..Len(entering) :
                            /\ IsOffScreen(once[i], ScreenHeight)
                            /\ ~once[i].isSliced}
            IN  /\ Len(dishes') = Cardinality(kept)
                /\ \A i \in kept :
                      dishes'[Cardinality({k \in kept : k <= i})] = once[i]
                /\ lives' = lives - Cardinality(missed)
                /\ Cardinality(Fired(log', "onLivesChange"))
                      = Cardinality(missed)]_vars

(* C37's case: of four dishes the first, a sliced burger, has left the     *)
(* screen in this tick; the two sliced tacos and the pizza behind it have  *)
(* each moved once and are the three dishes left, in their order.          *)
C37_FirstOfFourRemoved ==
    /\ state = "playing" /\ log = << <<"render">> >> /\ lastTime = now
    /\ lives = MaxLives
    /\ Len(dishes) = 3
    /\ dishes[1].type = "taco" /\ dishes[1].isSliced /\ dishes[1].y = 44840
    /\ dishes[2].type = "taco" /\ dishes[2].isSliced /\ dishes[2].y = 7040
    /\ dishes[3].type = "pizza" /\ ~dishes[3].isSliced /\ dishes[3].y = 55660

====
